---- MODULE Spec2Model ----
(***************************************************************************)
(* Model of the BGRA -> YUY2 and NV12 -> RGBA compute-shader converters    *)
(* (shaders BGRAToYUY2.hlsl in its two variants, NV12ToRGBA.hlsl) and of   *)
(* the host code that drives them (BGRAToYUY2Converter,                    *)
(* NV12ToRGBAConverter, Demo).                                             *)
(*                                                                         *)
(* Number representation.  Model integers are 32-bit signed, so:           *)
(*  - a shader float is an exact rational, kept as an integer numerator    *)
(*    over a fixed denominator (YDen, CDen, DecDen below); the float32     *)
(*    rounding of the hardware (relative error about 2^-24) is not         *)
(*    modelled, only the operations the shader performs;                   *)
(*  - a 32-bit unsigned word of a buffer is its four little-endian bytes   *)
(*    <<b0, b1, b2, b3>>;                                                  *)
(*  - a UINT of the host code whose wrap-around matters is a little-endian *)
(*    sequence of base-256 digits (see the U32 operators).                 *)
(***************************************************************************)
EXTENDS Integers, Sequences, FiniteSets, TLC

(***************************************************************************)
(* Bounds of the model                                                     *)
(***************************************************************************)
\* number of evenly spaced 8-bit channel levels the input colours take
NumLevels == 2

\* the widest image of the kernel runs (above 32, so that the grid has two
\* groups across)
MaxWidth == 33

\* the tallest image of the kernel runs (above 16: two groups down)
MaxHeight == 17

\* the size computations take every dimension 1..MaxSmallDim and a fixed set of
\* large ones
MaxSmallDim == 3

\* the widest NV12 image (above 16: two thread groups across)
NvMaxWidth == 18

\* the tallest NV12 image (above 16: two thread groups down)
NvMaxHeight == 17

\* D3D devices the capture creates before recovery is followed no further
MaxDevices == 3

\* Initialize, Convert and Cleanup calls made on one converter
MaxLifecycleCalls == 4

\* ValidateRGBAOutput: the width and the height of the validated texture run
\* over 1..MaxSampleDim
MaxSampleDim == 9

\* the capture loop is followed until CaptureFrame has delivered this many frames
MaxCaptures == 3

(***************************************************************************)
(* Generic helpers                                                         *)
(***************************************************************************)
Min(a, b) == IF a < b THEN a ELSE b

Max(a, b) == IF a > b THEN a ELSE b

\* HLSL clamp(x, lo, hi)
Clamp(x, lo, hi) == Max(lo, Min(hi, x))

\* floor(n / d) for d > 0 and any integer n
FloorDiv(n, d) == n \div d

\* HLSL round(): nearest integer, halfway cases to the nearest even integer;
\* the argument is the rational num/den, den > 0
Round(num, den) ==
    LET f == FloorDiv(num, den)
        r2 == 2 * (num - f * den)
    IN  IF r2 > den THEN f + 1
        ELSE IF r2 < den THEN f
        ELSE IF f % 2 = 0 THEN f ELSE f + 1

\* the four little-endian bytes of a value 0 <= x < 2^31
ToWord(x) == << x % 256, (x \div 256) % 256, (x \div 65536) % 256, (x \div 16777216) % 256 >>

\* 32-bit x << (8 * lanes): the bytes move up, the top ones fall off
ShlBytes(w, lanes) == [i \in 1..4 |-> IF i - lanes >= 1 THEN w[i - lanes] ELSE 0]

RECURSIVE OrByte(_, _, _)
\* bitwise OR of two bytes, bit by bit (n = number of bits left)
OrByte(a, b, n) ==
    IF n = 0 THEN 0
    ELSE (IF (a % 2 = 1) \/ (b % 2 = 1) THEN 1 ELSE 0) + 2 * OrByte(a \div 2, b \div 2, n - 1)

\* 32-bit a | b
OrWord(a, b) == [i \in 1..4 |-> OrByte(a[i], b[i], 8)]

(***************************************************************************)
(* Pixel formats and texel loads                                           *)
(***************************************************************************)
SupportedFormats ==
    {"B8G8R8A8_UNORM", "R8G8B8A8_UNORM", "B8G8R8A8_UNORM_SRGB", "R8G8B8A8_UNORM_SRGB"}

\* formats a texture handed to Convert may have
TextureFormats == SupportedFormats \cup {"R10G10B10A2_UNORM", "R16G16B16A16_FLOAT"}

\* a format check that lets every format through
IsSupportedFormat_NoCheck(f) == TRUE

\* the format check of Convert
IsSupportedFormat(f) ==
    ~ (  f # "B8G8R8A8_UNORM" /\ f # "R8G8B8A8_UNORM"
      /\ f # "B8G8R8A8_UNORM_SRGB" /\ f # "R8G8B8A8_UNORM_SRGB")

\* the format Convert gives the shader resource view
SrvFormat(f) ==
    IF f = "B8G8R8A8_UNORM_SRGB" THEN "B8G8R8A8_UNORM"
    ELSE IF f = "R8G8B8A8_UNORM_SRGB" THEN "R8G8B8A8_UNORM"
    ELSE f

\* a colour is a record of 8-bit channels; the texture keeps it as four bytes
\* in the memory order of its format
TexelBytes(f, c) ==
    IF SrvFormat(f) = "B8G8R8A8_UNORM" THEN << c.b, c.g, c.r, 255 >>
    ELSE << c.r, c.g, c.b, 255 >>

\* InputTexture.Load through a view of format f: the float4 the shader sees,
\* .r/.g/.b/.a by channel name, each as its UNORM numerator over 255
LoadTexel(f, bytes) ==
    IF SrvFormat(f) = "B8G8R8A8_UNORM"
    THEN [r |-> bytes[3], g |-> bytes[2], b |-> bytes[1], a |-> bytes[4]]
    ELSE [r |-> bytes[1], g |-> bytes[2], b |-> bytes[3], a |-> bytes[4]]

(***************************************************************************)
(* The forward colour transform, both shader variants                      *)
(***************************************************************************)
Variants == {"raw", "structured"}

\* denominator of a luma value: 1000 (coefficients) * 255 (UNORM)
YDen == 255000

\* denominator of a chroma value: 3125 * 255 (224/100000 = 7/3125)
CDen == 796875

\* saturate() of a UNORM numerator
Saturate255(n) == Clamp(n, 0, 255)

\* RGBToYUV of the raw-buffer variant with the final clamps left out
RGBToYUV_Raw_NoClamp(rgb) ==
    LET r == Saturate255(rgb[1])
        g == Saturate255(rgb[2])
        b == Saturate255(rgb[3])
    IN  << (299 * r + 587 * g + 114 * b) * 219 + 16 * YDen,
           ((0 - 14713) * r - 28886 * g + 43600 * b + 50000 * 255) * 7 + 16 * CDen,
           (61500 * r - 51499 * g - 10001 * b + 50000 * 255) * 7 + 16 * CDen >>

\* RGBToYUV of the raw-buffer variant; rgb = <<x, y, z>> numerators over 255
\* in the order the shader passes them; result <<Y, U, V>> over YDen, CDen, CDen
RGBToYUV_Raw(rgb) ==
    LET r == Saturate255(rgb[1])
        g == Saturate255(rgb[2])
        b == Saturate255(rgb[3])
        Y == (299 * r + 587 * g + 114 * b) * 219 + 16 * YDen
        U == ((0 - 14713) * r - 28886 * g + 43600 * b + 50000 * 255) * 7 + 16 * CDen
        V == (61500 * r - 51499 * g - 10001 * b + 50000 * 255) * 7 + 16 * CDen
    IN  << Clamp(Y, 16 * YDen, 235 * YDen),
           Clamp(U, 16 * CDen, 240 * CDen),
           Clamp(V, 16 * CDen, 240 * CDen) >>

\* RGBToYUV of the structured-buffer variant with full-range luma: no
\* 219/255 scaling and no offset of 16
RGBToYUV_Structured_FullRange(rgb) ==
    LET r == rgb[1]
        g == rgb[2]
        b == rgb[3]
    IN  << (299 * r + 587 * g + 114 * b) * 255,
           Clamp(((0 - 169) * r - 331 * g + 500 * b) * 700 + 128 * CDen, 16 * CDen, 240 * CDen),
           Clamp((500 * r - 419 * g - 81 * b) * 700 + 128 * CDen, 16 * CDen, 240 * CDen) >>

\* RGBToYUV of the structured-buffer variant (matrix form, no saturate)
RGBToYUV_Structured(rgb) ==
    LET r == rgb[1]
        g == rgb[2]
        b == rgb[3]
        Y == (299 * r + 587 * g + 114 * b) * 219 + 16 * YDen
        U == ((0 - 169) * r - 331 * g + 500 * b) * 700 + 128 * CDen
        V == (500 * r - 419 * g - 81 * b) * 700 + 128 * CDen
    IN  << Clamp(Y, 16 * YDen, 235 * YDen),
           Clamp(U, 16 * CDen, 240 * CDen),
           Clamp(V, 16 * CDen, 240 * CDen) >>

RGBToYUV(variant, rgb) ==
    IF variant = "raw" THEN RGBToYUV_Raw(rgb) ELSE RGBToYUV_Structured(rgb)

\* the float3 the shader builds from a loaded texel and passes to RGBToYUV
ShaderRGB(variant, pixel) ==
    IF variant = "raw" THEN << pixel.b, pixel.g, pixel.r >>
    ELSE << pixel.r, pixel.g, pixel.b >>

\* a packing in UYVY order: (y1 << 24) | (v << 16) | (y0 << 8) | u
PackYUY2_UYVY(y0, u, y1, v) ==
    OrWord(OrWord(OrWord(ShlBytes(ToWord(y1), 3), ShlBytes(ToWord(v), 2)),
                  ShlBytes(ToWord(y0), 1)),
           ToWord(u))

\* PackYUY2: (v << 24) | (y1 << 16) | (u << 8) | y0
PackYUY2(y0, u, y1, v) ==
    OrWord(OrWord(OrWord(ShlBytes(ToWord(v), 3), ShlBytes(ToWord(y1), 2)),
                  ShlBytes(ToWord(u), 1)),
           ToWord(y0))

\* the part of CSMain between the two loads and the store: swizzle, transform,
\* chroma average, rounding.  Result: the colours passed to RGBToYUV, what it
\* returned for each, and the four integers handed to PackYUY2.
EncodePair(variant, pixel0, pixel1) ==
    LET rgb0 == ShaderRGB(variant, pixel0)
        rgb1 == ShaderRGB(variant, pixel1)
        yuv0 == RGBToYUV(variant, rgb0)
        yuv1 == RGBToYUV(variant, rgb1)
        y0 == Round(yuv0[1], YDen)
        y1 == Round(yuv1[1], YDen)
        u  == Round(yuv0[2] + yuv1[2], 2 * CDen)
        v  == Round(yuv0[3] + yuv1[3], 2 * CDen)
    IN  [rgb0 |-> rgb0, rgb1 |-> rgb1, yuv0 |-> yuv0, yuv1 |-> yuv1,
         y0 |-> y0, u |-> u, y1 |-> y1, v |-> v]

(***************************************************************************)
(* The inverse colour transform of the NV12 -> RGBA shader                 *)
(***************************************************************************)
\* denominator of a decoded channel: 219 * 112000 (x/224000 terms reduced)
DecDen == 24528000

\* YUVToRGB(y, u, v) for integral y, u, v; result <<R, G, B>> over DecDen,
\* after saturate()
YUVToRGB(y, u, v) ==
    LET yy == (y - 16) * 112000
        R == yy + 219 * 701 * (v - 128)
        G == yy - 219 * (172 * (u - 128) + 357 * (v - 128))
        B == yy + 219 * 886 * (u - 128)
    IN  << Clamp(R, 0, DecDen), Clamp(G, 0, DecDen), Clamp(B, 0, DecDen) >>

(***************************************************************************)
(* State                                                                   *)
(***************************************************************************)
VARIABLES
    variant,     \* which BGRAToYUY2.hlsl is compiled: "raw" or "structured"
    texFormat,   \* DXGI format of the input texture
    stage,       \* colour pipeline position: "texels", "encoded", "decoded"
    src,         \* <<c0, c1>>: the source colours of one pixel pair
    enc,         \* what EncodePair produced for the pair
    macro,       \* the packed macropixel word (four bytes)
    dec,         \* YUVToRGB of the first pixel's stored Y, U, V
    m_initialized,    \* BGRAToYUY2Converter::m_initialized
    m_device,         \* m_device # nullptr
    m_context,        \* m_context # nullptr
    m_computeShader,  \* m_computeShader # nullptr
    m_constantBuffer, \* m_constantBuffer # nullptr
    pc,          \* position of the converter's caller / of Convert
    hr,          \* the HRESULT Convert returned ("none" before it returns)
    width,       \* Convert's width argument = the texture's width
    height,      \* Convert's height argument = the texture's height
    pattern,     \* what the input texture shows
    calls,       \* the device and context calls Convert has made, in order
    liveViews,   \* the views Convert created and has not released
    params,      \* the constant buffer: ImageWidth, ImageHeight, OutputStride
    grid,        \* <<dispatchX, dispatchY>> of the Dispatch call
    cursor,      \* number of work items of the dispatch that have run
    OutputBuffer,\* the output buffer, one 4-byte word per slot
    writes,      \* per slot: the thread ids that stored to it, in order
    oobStores,   \* number of stores attempted outside the buffer
    texReads,    \* the texel coordinates the last work item loaded
    order,       \* the order in which the device runs the work items of a dispatch
    szPc,        \* size bookkeeping: which of the four size computations is next
    szWidth,     \* width as a 32-bit UINT (base-256 digits)
    szHeight,    \* height as a 32-bit UINT
    allocSize,   \* bufferDesc.ByteWidth of CreateOutputBuffer
    uavBytes,    \* 4 * uavDesc.Buffer.NumElements of Convert
    readSize,    \* dataSize of ReadOutputBuffer
    expectedSize,\* expectedSize of ValidateYUY2Data
    nvPc,        \* NV12 -> RGBA Convert: "idle", "run", "done"
    nvWidth,     \* its width argument
    nvHeight,    \* its height argument
    nvBuffer,    \* the bytes of the NV12 input buffer
    nvParams,    \* NV12ConversionParams
    nvGrid,      \* <<dispatchX, dispatchY>>
    nvCursor,    \* number of work items that have run
    nvLoads,     \* the loads of the last work item (NoLoads: it loaded nothing)
    nvOutput,    \* OutputTexture: the texels written so far, with their positions
    nvWrites,    \* number of stores to OutputTexture so far
    unalignedLoad, \* what this device's raw-buffer Load does at an address
                 \* that is no multiple of 4
    loopPc,      \* position of Demo::Run / MainLoop / ProcessFrame
    runResult,   \* what Run returned ("none" while it runs)
    m_frameCount,      \* Demo::m_frameCount
    m_totalFrameTime,  \* Demo::m_totalFrameTime
    loopHr,      \* ProcessFrame's hr ("none" at the top of an iteration)
    capturedTexture,   \* ProcessFrame's capturedTexture: Null or the frame's texture
    outputBuffer,      \* ProcessFrame's outputBuffer: Null or the frame's buffer
    iterLog,     \* the calls and log lines of the current iteration, in order
    captures,    \* number of frames CaptureFrame has delivered
    skipped,     \* number of frames dropped on the silent E_INVALIDARG branch
    captureVersion,    \* which DXGICapture.cpp is built: "old" or "new"
    captureInitialized,\* DXGICapture::m_initialized
    countedBefore,     \* m_frameCount when the loop came under observation
    captureDevice,     \* DXGICapture::m_device: 0 (null) or the number of the
                       \* D3D11CreateDevice call that made it
    converterDevice,   \* the device the converter was initialized with
    rgbaPc,      \* position of ValidateRGBAOutput
    rgbaWidth,   \* its width argument
    rgbaHeight,  \* its height argument
    rgbaData,    \* the mapped staging texture, row by row
    testX,       \* the inner sampling loop's testX
    testY,       \* the outer sampling loop's testY
    isValid,     \* ValidateRGBAOutput's isValid
    rgbaLog,     \* the log lines and calls of ValidateRGBAOutput, in order
    samplePasses \* the passes of the loop body so far, counted modulo 2

colourVars == << stage, src, enc, macro, dec >>

converterVars ==
    << m_initialized, m_device, m_context, m_computeShader, m_constantBuffer >>

convertVars == << pc, hr, width, height, pattern, calls, liveViews, params >>

kernelVars == << grid, cursor, OutputBuffer, writes, oobStores, texReads, order >>

sizeVars == << szPc, szWidth, szHeight, allocSize, uavBytes, readSize, expectedSize >>

rgbaVars == << rgbaPc, rgbaWidth, rgbaHeight, rgbaData, testX, testY, isValid,
              rgbaLog, samplePasses >>

nvVars == << nvPc, nvWidth, nvHeight, nvBuffer, nvParams, nvGrid, nvCursor,
             nvLoads, nvOutput, nvWrites, unalignedLoad, rgbaVars >>

loopVars == << loopPc, runResult, m_frameCount, m_totalFrameTime, loopHr,
               capturedTexture, outputBuffer, iterLog, captures, skipped,
               captureVersion, captureInitialized, countedBefore,
           captureDevice, converterDevice >>

vars == << variant, texFormat, stage, src, enc, macro, dec,
           m_initialized, m_device, m_context, m_computeShader, m_constantBuffer,
           pc, hr, width, height, pattern, calls, liveViews, params,
           grid, cursor, OutputBuffer, writes, oobStores, texReads, order,
           szPc, szWidth, szHeight, allocSize, uavBytes, readSize, expectedSize,
           nvPc, nvWidth, nvHeight, nvBuffer, nvParams, nvGrid, nvCursor,
           nvLoads, nvOutput, nvWrites, unalignedLoad,
           loopPc, runResult, m_frameCount, m_totalFrameTime, loopHr,
           capturedTexture, outputBuffer, iterLog, captures, skipped,
           captureVersion, captureInitialized, countedBefore,
           captureDevice, converterDevice,
           rgbaPc, rgbaWidth, rgbaHeight, rgbaData, testX, testY, isValid,
           rgbaLog, samplePasses >>

(***************************************************************************)
(* Input colours                                                           *)
(***************************************************************************)
\* evenly spaced levels 0..255, and mid-gray
Levels == {(255 * i) \div (NumLevels - 1) : i \in 0..(NumLevels - 1)} \cup {128}

Colours == [r : Levels, g : Levels, b : Levels]

NoEnc == [rgb0 |-> << >>, rgb1 |-> << >>, yuv0 |-> << >>, yuv1 |-> << >>,
          y0 |-> 0, u |-> 0, y1 |-> 0, v |-> 0]

(***************************************************************************)
(* Values of the variables a specification does not use                    *)
(***************************************************************************)
NoParams == [ImageWidth |-> 0, ImageHeight |-> 0, OutputStride |-> 0]

ColourIdle ==
    /\ stage = "texels"
    /\ src = << >>
    /\ enc = NoEnc
    /\ macro = << 0, 0, 0, 0 >>
    /\ dec = << >>

ConverterIdle ==
    /\ m_initialized = FALSE
    /\ m_device = FALSE
    /\ m_context = FALSE
    /\ m_computeShader = FALSE
    /\ m_constantBuffer = FALSE

ConvertIdle ==
    /\ pc = "off"
    /\ hr = "none"
    /\ width = 0
    /\ height = 0
    /\ pattern = "none"
    /\ calls = << >>
    /\ liveViews = {}
    /\ params = NoParams
    /\ grid = << 0, 0 >>
    /\ cursor = 0
    /\ OutputBuffer = << >>
    /\ writes = << >>
    /\ oobStores = 0
    /\ texReads = {}

SizeIdle ==
    /\ szPc = "off"
    /\ szWidth = << >>
    /\ szHeight = << >>
    /\ allocSize = << >>
    /\ uavBytes = << >>
    /\ readSize = << >>
    /\ expectedSize = << >>

NoLoads == [x |-> 0, y |-> 0, yOffset |-> 0, uvOffset |-> 0,
            yValue |-> << >>, uValue |-> << >>, vValue |-> << >>, rgb |-> << >>]

RgbaIdle ==
    /\ rgbaPc = "off"
    /\ rgbaWidth = 0
    /\ rgbaHeight = 0
    /\ rgbaData = << >>
    /\ testX = 0
    /\ testY = 0
    /\ isValid = FALSE
    /\ rgbaLog = << >>
    /\ samplePasses = 0

NvIdle ==
    /\ RgbaIdle
    /\ nvPc = "off"
    /\ nvWidth = 0
    /\ nvHeight = 0
    /\ nvBuffer = << >>
    /\ nvParams = [ImageWidth |-> 0, ImageHeight |-> 0,
                   YPlaneStride |-> 0, UVPlaneStride |-> 0]
    /\ nvGrid = << 0, 0 >>
    /\ nvCursor = 0
    /\ nvLoads = NoLoads
    /\ nvOutput = {}
    /\ nvWrites = 0
    /\ unalignedLoad = "none"

\* a null interface pointer
Null == [frame |-> 0, format |-> "null"]

LoopIdle ==
    /\ loopPc = "off"
    /\ runResult = "none"
    /\ m_frameCount = 0
    /\ m_totalFrameTime = 0
    /\ loopHr = "none"
    /\ capturedTexture = Null
    /\ outputBuffer = Null
    /\ iterLog = << >>
    /\ captures = 0
    /\ skipped = 0
    /\ captureVersion = "none"
    /\ captureInitialized = FALSE
    /\ countedBefore = 0
    /\ captureDevice = 0
    /\ converterDevice = 0

(***************************************************************************)
(* SpecColour: one pixel pair through the encoder's arithmetic and back    *)
(* through the decoder's                                                   *)
(***************************************************************************)
ColourInit ==
    /\ order = "forward"
    /\ variant \in Variants
    /\ texFormat \in SupportedFormats
    /\ stage = "texels"
    /\ src \in Colours \X Colours
    /\ enc = NoEnc
    /\ macro = << 0, 0, 0, 0 >>
    /\ dec = << >>
    /\ ConverterIdle
    /\ ConvertIdle
    /\ SizeIdle
    /\ NvIdle
    /\ LoopIdle

\* the shader's work on one pair: two loads, EncodePair, PackYUY2
CSEncode ==
    /\ stage = "texels"
    /\ LET pixel0 == LoadTexel(texFormat, TexelBytes(texFormat, src[1]))
           pixel1 == LoadTexel(texFormat, TexelBytes(texFormat, src[2]))
           e == EncodePair(variant, pixel0, pixel1)
       IN  /\ enc' = e
           /\ macro' = PackYUY2(e.y0, e.u, e.y1, e.v)
    /\ stage' = "encoded"
    /\ UNCHANGED << variant, texFormat, src, dec >>
    /\ UNCHANGED << converterVars, convertVars, kernelVars, sizeVars, nvVars, loopVars >>

\* the decoder's YUVToRGB on the bytes Y0, U, V of the stored macropixel
CSDecode ==
    /\ stage = "encoded"
    /\ dec' = YUVToRGB(macro[1], macro[2], macro[4])
    /\ stage' = "decoded"
    /\ UNCHANGED << variant, texFormat, src, enc, macro >>
    /\ UNCHANGED << converterVars, convertVars, kernelVars, sizeVars, nvVars, loopVars >>

ColourNext == CSEncode \/ CSDecode

SpecColour == ColourInit /\ [][ColourNext]_vars

(***************************************************************************)
(* Claims about the colour arithmetic (checked under SpecColour)           *)
(***************************************************************************)
Red == [r |-> 255, g |-> 0, b |-> 0]

Blue == [r |-> 0, g |-> 0, b |-> 255]

\* C2: every macropixel the encoder stores, in either shader variant and for
\* every pair of input colours, has Y0 and Y1 in [16,235] and U and V in
\* [16,240].
C2_RangeInvariant ==
    stage # "texels" =>
        /\ macro[1] \in 16..235
        /\ macro[3] \in 16..235
        /\ macro[2] \in 16..240
        /\ macro[4] \in 16..240

\* C2 witness: a red first pixel has been encoded by the raw variant, whose V
\* (265.76 before the clamp) is stored as 240.
C2_Witness ==
    /\ stage = "encoded"
    /\ variant = "raw"
    /\ enc.rgb0 = << 255, 0, 0 >>
    /\ enc.rgb1 = << 255, 0, 0 >>
    /\ macro[4] = 240

\* the centred BT.601 chroma of the specification for a colour rgb (numerators
\* over 255): (-0.169 R - 0.331 G + 0.500 B) * 224 + 128, clamped, over CDen
RefU(rgb) ==
    Clamp(((0 - 169) * rgb[1] - 331 * rgb[2] + 500 * rgb[3]) * 700 + 128 * CDen,
          16 * CDen, 240 * CDen)

\* (0.500 R - 0.419 G - 0.081 B) * 224 + 128, clamped, over CDen
RefV(rgb) ==
    Clamp((500 * rgb[1] - 419 * rgb[2] - 81 * rgb[3]) * 700 + 128 * CDen,
          16 * CDen, 240 * CDen)

\* C3: for every colour passed to the encoder's forward transform, the chroma
\* it computes is the centred BT.601 form U = -0.169R - 0.331G + 0.500B,
\* V = 0.500R - 0.419G - 0.081B, remapped by *224+128 and clamped to [16,240]
\* (compared as rounded bytes).
C3_ForwardChromaIsCentredForm ==
    stage # "texels" =>
        /\ Round(enc.yuv0[2], CDen) = Round(RefU(enc.rgb0), CDen)
        /\ Round(enc.yuv0[3], CDen) = Round(RefV(enc.rgb0), CDen)
        /\ Round(enc.yuv1[2], CDen) = Round(RefU(enc.rgb1), CDen)
        /\ Round(enc.yuv1[3], CDen) = Round(RefV(enc.rgb1), CDen)

\* C4: whichever supported channel order the texture has, the colour the
\* encoder passes to the forward transform has the source's red in the red
\* slot and its blue in the blue slot; a solid red pair is stored with the
\* luma of red (81) and V at the top of its range (240).
C4_ChannelOrder ==
    stage # "texels" =>
        /\ enc.rgb0 = << src[1].r, src[1].g, src[1].b >>
        /\ enc.rgb1 = << src[2].r, src[2].g, src[2].b >>
        /\ (src = << Red, Red >> =>
                macro[1] = 81 /\ macro[3] = 81 /\ macro[4] = 240)

\* |255 * (num / DecDen) - c| <= tol, in integers (DecDen = 15 * 1635200)
WithinOnByteScale(num, c, tol) ==
    LET d == 17 * num - c * 1635200
    IN  d <= tol * 1635200 /\ (0 - d) <= tol * 1635200

\* C5: for a uniform pair, the colour passed to the forward transform,
\* encoded, rounded to bytes and decoded with YUVToRGB comes back within 2 of
\* the original in each of R, G, B on the 0..255 scale.
C5_RoundTripWithin2 ==
    (stage = "decoded" /\ src[1] = src[2]) =>
        \A i \in 1..3 : WithinOnByteScale(dec[i], enc.rgb0[i], 2)

(***************************************************************************)
(* The input texture                                                       *)
(***************************************************************************)
Patterns == {"red", "gray", "ramp"}

\* the colour the source shows at pixel (x, y): solid red, uniform mid-gray,
\* or a ramp in which horizontal neighbours and the first pixel of the next
\* row all differ
SourceColour(p, x, y) ==
    IF p = "red" THEN [r |-> 255, g |-> 0, b |-> 0]
    ELSE IF p = "gray" THEN [r |-> 128, g |-> 128, b |-> 128]
    ELSE [r |-> (37 * x + 101 * y + 5) % 256,
          g |-> (59 * x + 17 * y + 90) % 256,
          b |-> (11 * x + 29 * y + 200) % 256]

\* InputTexture.Load(uint3(x, y, 0)) for a texel inside the texture
TextureLoad(f, p, x, y) == LoadTexel(f, TexelBytes(f, SourceColour(p, x, y)))

(***************************************************************************)
(* BGRAToYUY2Converter: sizes and the dispatch grid                        *)
(***************************************************************************)
\* numthreads(16, 16, 1)
GroupW == 16

GroupH == 16

\* ((width + 1) / 2): macropixels per row
HalfWidth(w) == (w + 1) \div 2

\* ((width + 1) / 2) * height * 4, the byte size CreateOutputBuffer allocates,
\* for sizes far below 2^32 (see the U32 operators for the wrap-around)
Yuy2Size(w, h) == HalfWidth(w) * h * 4

\* uavDesc.Buffer.NumElements
UavNumElements(w, h) == (HalfWidth(w) * h * 4) \div 4

\* a dispatchX that rounds down: width / 32
DispatchX_RoundDown(w) == w \div 32

DispatchX(w) == (w + 31) \div 32

DispatchY(h) == (h + 15) \div 16

\* the orders followed for the work items of a dispatch; the device promises
\* none
Orders == {"forward", "reverse", "stride"}

\* the work item that runs as the i-th of n under an order: in index order,
\* in reverse, or every third one round the grid (n is a multiple of 256)
Schedule(o, i, n) ==
    IF o = "forward" THEN i
    ELSE IF o = "reverse" THEN n - 1 - i
    ELSE (3 * i + 1) % n

\* SV_DispatchThreadID of the i-th work item of a dispatch of gx by gy groups
ThreadId(i, gx) ==
    LET g == i \div (GroupW * GroupH)
        t == i % (GroupW * GroupH)
    IN  [x |-> (g % gx) * GroupW + (t % GroupW),
         y |-> (g \div gx) * GroupH + (t \div GroupW)]

(***************************************************************************)
(* CSMain of BGRAToYUY2.hlsl                                               *)
(***************************************************************************)
\* a pixel1 that keeps the initial float4(0,0,0,1) of the structured variant
\* when the pair has no second pixel
SecondPixel_NoDup(v, f, p, x, y, W, pixel0) ==
    IF (x + 1) < W THEN TextureLoad(f, p, x + 1, y)
    ELSE [r |-> 0, g |-> 0, b |-> 0, a |-> 255]

\* pixel1 of the pair that starts at (x, y): the right neighbour, or pixel0
\* again when the row ends at x (both variants)
SecondPixel(v, f, p, x, y, W, pixel0) ==
    IF (x + 1) < W THEN TextureLoad(f, p, x + 1, y) ELSE pixel0

\* an index that leaves the row out: the column alone
OutputIndex_NoRow(v, id, W) == id.x

\* the index a work item stores to: row * ((ImageWidth + 1) / 2) + column
OutputIndex(v, id, W) ==
    IF v = "raw" THEN (id.y * ((W + 1) \div 2)) + id.x
    ELSE (id.y * ((W + 1) \div 2)) + ((id.x * 2) \div 2)

\* a bounds check that forgets the column
OutsideImage_RowOnly(px, py, W, H) == py >= H

\* the bounds check of both kernels: the position is outside the image
OutsideImage(px, py, W, H) == px >= W \/ py >= H

\* one work item: what it loads and what it stores.  store = FALSE: it
\* returned at the bounds check or (raw variant) at the index guard.
CSMain(v, f, p, id, W, H) ==
    LET px == id.x * 2
        py == id.y
    IN  IF OutsideImage(px, py, W, H)
        THEN [store |-> FALSE, index |-> 0, word |-> << 0, 0, 0, 0 >>, reads |-> {}]
        ELSE
          LET pixel0 == TextureLoad(f, p, px, py)
              pixel1 == SecondPixel(v, f, p, px, py, W, pixel0)
              e == EncodePair(v, pixel0, pixel1)
              outputIndex == OutputIndex(v, id, W)
              maxIndex == ((W + 1) \div 2) * H
          IN  [store |-> (v = "raw" => outputIndex < maxIndex),
               index |-> outputIndex,
               word  |-> PackYUY2(e.y0, e.u, e.y1, e.v),
               reads |-> {<< px, py >>} \cup
                         (IF (px + 1) < W THEN {<< px + 1, py >>} ELSE {})]

(***************************************************************************)
(* Spec: Initialize, then one Convert call with its dispatch               *)
(***************************************************************************)
Widths == {1, 2, 3, MaxWidth}

Heights == {1, MaxHeight}

\* failure results a device or context call can give
DeviceFailures == {"E_OUTOFMEMORY", "E_INVALIDARG", "DXGI_ERROR_DEVICE_REMOVED"}

\* what CreateBuffer leaves in a buffer created without initial data
FreshWord == << 0, 0, 0, 0 >>

EncoderInit(orders) ==
    /\ order \in orders
    /\ variant \in Variants
    /\ texFormat \in TextureFormats
    /\ ColourIdle
    /\ ConverterIdle
    /\ pc = "constructed"
    /\ hr = "none"
    /\ width \in Widths
    /\ height \in Heights
    /\ pattern \in Patterns
    /\ calls = << >>
    /\ liveViews = {}
    /\ params = NoParams
    /\ grid = << 0, 0 >>
    /\ cursor = 0
    /\ OutputBuffer = [s \in 1..(HalfWidth(width) * height) |-> FreshWord]
    /\ writes = [s \in 1..(HalfWidth(width) * height) |-> << >>]
    /\ oobStores = 0
    /\ texReads = {}
    /\ SizeIdle
    /\ NvIdle
    /\ LoopIdle

Init == EncoderInit({"forward"})

\* BGRAToYUY2Converter::Initialize with a device and a context: the shader
\* compiles and the constant buffer is created, or one of them fails and
\* Cleanup() runs
Initialize ==
    /\ pc = "constructed"
    /\ \E ok \in BOOLEAN :
         /\ m_initialized' = ok
         /\ m_device' = ok
         /\ m_context' = ok
         /\ m_computeShader' = ok
         /\ m_constantBuffer' = ok
    /\ pc' = "idle"
    /\ UNCHANGED << sizeVars, nvVars, loopVars >>
    /\ UNCHANGED << variant, texFormat, colourVars, kernelVars,
                    hr, width, height, pattern, calls, liveViews, params >>

\* Convert, entry: the argument check and the format check
ConvertEnter ==
    /\ pc = "idle"
    /\ IF ~ m_initialized
       THEN pc' = "done" /\ hr' = "E_INVALIDARG"
       ELSE IF ~ IsSupportedFormat(texFormat)
       THEN pc' = "done" /\ hr' = "E_INVALIDARG"
       ELSE pc' = "srv" /\ hr' = hr
    /\ UNCHANGED << sizeVars, nvVars, loopVars >>
    /\ UNCHANGED << variant, texFormat, colourVars, converterVars, kernelVars,
                    width, height, pattern, calls, liveViews, params >>

\* Convert: CreateShaderResourceView; on failure its result is returned
CreateSRV ==
    /\ pc = "srv"
    /\ calls' = Append(calls, "CreateShaderResourceView")
    /\ \/ /\ liveViews' = liveViews \cup {"inputSRV"}
          /\ pc' = "uav"
          /\ hr' = hr
       \/ \E srvResult \in DeviceFailures :
          /\ liveViews' = liveViews
          /\ pc' = "done"
          /\ hr' = srvResult
    /\ UNCHANGED << sizeVars, nvVars, loopVars >>
    /\ UNCHANGED << variant, texFormat, colourVars, converterVars, kernelVars,
                    width, height, pattern, params >>

\* Convert: CreateUnorderedAccessView under ThrowIfFailed; the catch block
\* returns E_FAIL
CreateUAV ==
    /\ pc = "uav"
    /\ calls' = Append(calls, "CreateUnorderedAccessView")
    /\ \/ /\ liveViews' = liveViews \cup {"outputUAV"}
          /\ pc' = "map"
          /\ hr' = hr
       \/ /\ liveViews' = liveViews
          /\ pc' = "done"
          /\ hr' = "E_FAIL"
    /\ UNCHANGED << sizeVars, nvVars, loopVars >>
    /\ UNCHANGED << variant, texFormat, colourVars, converterVars, kernelVars,
                    width, height, pattern, params >>

\* Convert: Map, fill ConversionParams, Unmap; Map is under ThrowIfFailed
MapParams ==
    /\ pc = "map"
    /\ \/ /\ calls' = calls \o << "Map", "Unmap" >>
          /\ params' = [ImageWidth |-> width, ImageHeight |-> height,
                        OutputStride |-> ((width + 1) \div 2) * 4]
          /\ pc' = "dispatch"
          /\ hr' = hr
       \/ /\ calls' = Append(calls, "Map")
          /\ params' = params
          /\ pc' = "done"
          /\ hr' = "E_FAIL"
    /\ UNCHANGED << sizeVars, nvVars, loopVars >>
    /\ UNCHANGED << variant, texFormat, colourVars, converterVars, kernelVars,
                    width, height, pattern, liveViews >>

\* Convert: bind shader, views and constants, compute the grid, Dispatch
BindAndDispatch ==
    /\ pc = "dispatch"
    /\ calls' = calls \o << "CSSetShader", "CSSetShaderResources",
                            "CSSetUnorderedAccessViews", "CSSetConstantBuffers",
                            "Dispatch" >>
    /\ grid' = << DispatchX(width), DispatchY(height) >>
    /\ cursor' = 0
    /\ pc' = "run"
    /\ UNCHANGED << sizeVars, nvVars, loopVars >>
    /\ UNCHANGED << variant, texFormat, colourVars, converterVars,
                    OutputBuffer, writes, oobStores, texReads, order,
                    hr, width, height, pattern, liveViews, params >>

\* number of work items of the dispatch
GridItems == grid[1] * grid[2] * GroupW * GroupH

\* the device runs the next work item of the dispatch
WorkItem ==
    /\ pc = "run"
    /\ cursor < GridItems
    /\ LET id == ThreadId(Schedule(order, cursor, GridItems), grid[1])
           r == CSMain(variant, SrvFormat(texFormat), pattern, id,
                       params.ImageWidth, params.ImageHeight)
           slot == r.index + 1
           inView == r.index < UavNumElements(width, height)
       IN  /\ texReads' = r.reads
           /\ IF r.store /\ inView
              THEN /\ OutputBuffer' = [OutputBuffer EXCEPT ![slot] = r.word]
                   /\ writes' = [writes EXCEPT ![slot] = Append(@, << id.x, id.y >>)]
                   /\ oobStores' = oobStores
              ELSE /\ OutputBuffer' = OutputBuffer
                   /\ writes' = writes
                   /\ oobStores' = IF r.store THEN oobStores + 1 ELSE oobStores
    /\ cursor' = cursor + 1
    /\ UNCHANGED << sizeVars, nvVars, loopVars >>
    /\ UNCHANGED << variant, texFormat, colourVars, converterVars, convertVars,
                    grid, order >>

\* Convert, after the dispatch: unbind, release both views, return S_OK
ConvertFinish ==
    /\ pc = "run"
    /\ cursor = GridItems
    /\ calls' = calls \o << "CSSetShaderResources", "CSSetUnorderedAccessViews" >>
    /\ liveViews' = liveViews \ {"inputSRV", "outputUAV"}
    /\ hr' = "S_OK"
    /\ pc' = "done"
    /\ UNCHANGED << sizeVars, nvVars, loopVars >>
    /\ UNCHANGED << variant, texFormat, colourVars, converterVars, kernelVars,
                    width, height, pattern, params >>

Next ==
    \/ Initialize
    \/ ConvertEnter
    \/ CreateSRV
    \/ CreateUAV
    \/ MapParams
    \/ BindAndDispatch
    \/ WorkItem
    \/ ConvertFinish

Spec == Init /\ [][Next]_vars

(***************************************************************************)
(* Claims about Convert and its dispatch (checked under Spec)              *)
(***************************************************************************)
\* ceil(w / 2), written without the code's (w + 1) / 2
CeilHalf(w) == (w \div 2) + (w % 2)

\* the dispatch has run all its work items
DispatchComplete == (pc = "run" /\ cursor = GridItems) \/ (pc = "done" /\ hr = "S_OK")

\* C1: for every width and height, the (width+31)/32 by (height+15)/16 grid of
\* 16x16 work items and the bounds check make exactly one work item store each
\* macropixel position in [0, ceil(width/2)) x [0, height): the thread (k, y)
\* stores word y*ceil(width/2)+k, no slot is stored twice, no store falls
\* outside the buffer, and when the dispatch is complete every slot of the
\* ceil(width/2)*height words has been stored exactly once.
C1_GridCoverage ==
    /\ oobStores = 0
    /\ \A s \in DOMAIN writes :
         \/ writes[s] = << >>
         \/ writes[s] = << << (s - 1) % CeilHalf(width), (s - 1) \div CeilHalf(width) >> >>
    /\ DispatchComplete =>
         /\ grid = << (width + 31) \div 32, (height + 15) \div 16 >>
         /\ DOMAIN writes = 1..(CeilHalf(width) * height)
         /\ \A y \in 0..(height - 1) : \A k \in 0..(CeilHalf(width) - 1) :
              writes[y * CeilHalf(width) + k + 1] = << << k, y >> >>

\* C1 witness: a dispatch of two by two groups over an odd-width image has
\* completed.
C1_Witness ==
    /\ pc = "done"
    /\ hr = "S_OK"
    /\ grid = << 2, 2 >>
    /\ width % 2 = 1
    /\ Len(writes[CeilHalf(width) * height]) = 1

\* the byte at a byte offset of the output buffer, as ReadOutputBuffer's memcpy
\* delivers it
ByteAt(off) == OutputBuffer[(off \div 4) + 1][(off % 4) + 1]

\* Y0, U, Y1, V of pixel pair k of row y, from the texels and the transform
ExpectedMacro(k, y) ==
    LET f == SrvFormat(texFormat)
        p0 == TextureLoad(f, pattern, 2 * k, y)
        p1 == IF 2 * k + 1 < width THEN TextureLoad(f, pattern, 2 * k + 1, y) ELSE p0
        e == EncodePair(variant, p0, p1)
    IN  << e.y0, e.u, e.y1, e.v >>

\* C7: the macropixel of pixel pair k of row y lies at byte offset
\* 4*(y*ceil(width/2)+k) of the output buffer as the four bytes Y0, U, Y1, V in
\* that order, each byte equal to the value that was packed (stated of the
\* buffer a complete dispatch leaves).
C7_MacropixelByteLayout ==
    DispatchComplete =>
        \A y \in 0..(height - 1) : \A k \in 0..(CeilHalf(width) - 1) :
            LET s == y * CeilHalf(width) + k
                m == ExpectedMacro(k, y)
            IN  /\ s + 1 \in DOMAIN OutputBuffer
                /\ ByteAt(4 * s)     = m[1]
                /\ ByteAt(4 * s + 1) = m[2]
                /\ ByteAt(4 * s + 2) = m[3]
                /\ ByteAt(4 * s + 3) = m[4]

\* C7 witness: a dispatch over a ramp image is complete and the first
\* macropixel of the second row holds four different bytes.
C7_Witness ==
    /\ pattern = "ramp"
    /\ height > 1
    /\ DispatchComplete
    /\ writes[CeilHalf(width) + 1] # << >>
    /\ Cardinality({OutputBuffer[CeilHalf(width) + 1][j] : j \in 1..4}) = 4

\* C9: when width is odd, the last macropixel of every row is built from the
\* row's last pixel paired with a copy of itself: Y0 = Y1 = that pixel's luma,
\* U and V = that pixel's own chroma; it is never skipped, and a 1-pixel-wide
\* image yields exactly one macropixel per row.
C9_OddWidthDuplicatesLastPixel ==
    (width % 2 = 1) =>
        /\ \A y \in 0..(height - 1) :
             LET s == y * CeilHalf(width) + (width \div 2)
                 px == TextureLoad(SrvFormat(texFormat), pattern, width - 1, y)
                 yuv == RGBToYUV(variant, ShaderRGB(variant, px))
             IN  /\ DispatchComplete => writes[s + 1] # << >>
                 /\ writes[s + 1] # << >> =>
                      OutputBuffer[s + 1] = << Round(yuv[1], YDen), Round(yuv[2], CDen),
                                               Round(yuv[1], YDen), Round(yuv[3], CDen) >>
        /\ (width = 1 /\ DispatchComplete) =>
             /\ DOMAIN writes = 1..height
             /\ \A s \in 1..height : Len(writes[s]) = 1

\* C9 witness: the last macropixel of the last row of a 3-pixel-wide ramp
\* image has been stored with equal lumas.
C9_Witness ==
    /\ width = 3
    /\ pattern = "ramp"
    /\ DispatchComplete
    /\ writes[2 * height] # << >>
    /\ OutputBuffer[2 * height][1] = OutputBuffer[2 * height][3]

\* C10: when the texture's format is none of B8G8R8A8_UNORM, R8G8B8A8_UNORM
\* and their _SRGB variants, an initialized converter's Convert returns
\* E_INVALIDARG having made no device or context call (no view, no Map, no
\* binding, no Dispatch), and the output buffer is as it was.
C10_FormatRejectionFailsFast ==
    (  m_initialized
    /\ texFormat \notin {"B8G8R8A8_UNORM", "R8G8B8A8_UNORM",
                         "B8G8R8A8_UNORM_SRGB", "R8G8B8A8_UNORM_SRGB"}) =>
        /\ calls = << >>
        /\ liveViews = {}
        /\ grid = << 0, 0 >>
        /\ cursor = 0
        /\ \A s \in DOMAIN OutputBuffer : OutputBuffer[s] = FreshWord /\ writes[s] = << >>
        /\ pc \in {"idle", "done"}
        /\ pc = "done" => hr = "E_INVALIDARG"

\* C10 witness: Convert has returned E_INVALIDARG for a 10-bit texture.
C10_Witness ==
    /\ m_initialized
    /\ texFormat = "R10G10B10A2_UNORM"
    /\ pc = "done"
    /\ hr = "E_INVALIDARG"

(***************************************************************************)
(* 32-bit unsigned arithmetic of the host code                             *)
(*                                                                         *)
(* A natural number is its nine little-endian base-256 digits (enough for  *)
(* 2^32 * 2^32 * 4); a UINT is such a number with digits 5..9 zero, and a  *)
(* UINT operation drops the digits above the fourth (wrap-around).         *)
(***************************************************************************)
BigDigits == 1..9

Pow256 == << 1, 256, 65536, 16777216 >>

\* the number n, 0 <= n < 2^31
Big(n) ==
    LET d(i) == IF i <= 4 THEN (n \div Pow256[i]) % 256 ELSE 0
    IN  << d(1), d(2), d(3), d(4), d(5), d(6), d(7), d(8), d(9) >>

RECURSIVE AddCarry(_, _, _)
\* carry out of digit i of a + b
AddCarry(a, b, i) == IF i = 0 THEN 0 ELSE (a[i] + b[i] + AddCarry(a, b, i - 1)) \div 256

BigAdd(a, b) ==
    LET d(i) == (a[i] + b[i] + AddCarry(a, b, i - 1)) % 256
    IN  << d(1), d(2), d(3), d(4), d(5), d(6), d(7), d(8), d(9) >>

RECURSIVE ColSum(_, _, _, _)
\* sum of a[j] * b[i + 1 - j] for j = 1..n
ColSum(a, b, i, n) == IF n = 0 THEN 0 ELSE a[n] * b[i + 1 - n] + ColSum(a, b, i, n - 1)

RECURSIVE MulCarry(_, _, _)
\* carry out of digit i of a * b
MulCarry(a, b, i) == IF i = 0 THEN 0 ELSE (ColSum(a, b, i, i) + MulCarry(a, b, i - 1)) \div 256

BigMul(a, b) ==
    LET d(i) == (ColSum(a, b, i, i) + MulCarry(a, b, i - 1)) % 256
    IN  << d(1), d(2), d(3), d(4), d(5), d(6), d(7), d(8), d(9) >>

RECURSIVE DivRem(_, _, _)
\* remainder of the digits i..9 of a by the small divisor d
DivRem(a, d, i) == IF i > 9 THEN 0 ELSE (DivRem(a, d, i + 1) * 256 + a[i]) % d

\* a / d rounded down, 0 < d < 256
BigDiv(a, d) ==
    LET q(i) == (DivRem(a, d, i + 1) * 256 + a[i]) \div d
    IN  << q(1), q(2), q(3), q(4), q(5), q(6), q(7), q(8), q(9) >>

\* the low 32 bits
Trunc32(a) == << a[1], a[2], a[3], a[4], 0, 0, 0, 0, 0 >>

U32Add(a, b) == Trunc32(BigAdd(a, b))

U32Mul(a, b) == Trunc32(BigMul(a, b))

U32Div(a, d) == BigDiv(a, d)

(***************************************************************************)
(* The four places that compute the YUY2 byte count                        *)
(***************************************************************************)
\* CreateOutputBuffer: yuy2Size = ((width + 1) / 2) * height * 4
CreateOutputBuffer_ByteWidth(w, h) ==
    U32Mul(U32Mul(U32Div(U32Add(w, Big(1)), 2), h), Big(4))

\* Convert: uavDesc.Buffer.NumElements = (((width + 1) / 2) * height * 4) / 4
Convert_NumElements(w, h) ==
    U32Div(U32Mul(U32Mul(U32Div(U32Add(w, Big(1)), 2), h), Big(4)), 4)

\* ReadOutputBuffer: dataSize = ((width + 1) / 2) * height * 4
ReadOutputBuffer_DataSize(w, h) ==
    U32Mul(U32Mul(U32Div(U32Add(w, Big(1)), 2), h), Big(4))

\* ValidateYUY2Data: expectedSize = ((width + 1) / 2) * height * 4
ValidateYUY2Data_ExpectedSize(w, h) ==
    U32Mul(U32Mul(U32Div(U32Add(w, Big(1)), 2), h), Big(4))

(***************************************************************************)
(* SpecSize: the byte counts of one frame, for 32-bit widths and heights   *)
(***************************************************************************)
\* 16384 (the largest Direct3D 11 texture side), 65535, 65536, 2^31 - 1, 2^31,
\* 2^32 - 1
LargeDims ==
    { [i \in BigDigits |-> IF i = 2 THEN 64 ELSE 0],
      [i \in BigDigits |-> IF i <= 2 THEN 255 ELSE 0],
      [i \in BigDigits |-> IF i = 3 THEN 1 ELSE 0],
      [i \in BigDigits |-> IF i <= 3 THEN 255 ELSE IF i = 4 THEN 127 ELSE 0],
      [i \in BigDigits |-> IF i = 4 THEN 128 ELSE 0],
      [i \in BigDigits |-> IF i <= 4 THEN 255 ELSE 0] }

Dims32 == {Big(n) : n \in 1..MaxSmallDim} \cup LargeDims

SizeInit ==
    /\ order = "forward"
    /\ variant = "raw"
    /\ texFormat = "B8G8R8A8_UNORM"
    /\ ColourIdle
    /\ ConverterIdle
    /\ ConvertIdle
    /\ NvIdle
    /\ LoopIdle
    /\ szPc = "create"
    /\ szWidth \in Dims32
    /\ szHeight \in Dims32
    /\ allocSize = << >>
    /\ uavBytes = << >>
    /\ readSize = << >>
    /\ expectedSize = << >>

\* ProcessFrame calls CreateOutputBuffer(width, height, ...)
SizeCreateOutputBuffer ==
    /\ szPc = "create"
    /\ allocSize' = CreateOutputBuffer_ByteWidth(szWidth, szHeight)
    /\ szPc' = "convert"
    /\ UNCHANGED << szWidth, szHeight, uavBytes, readSize, expectedSize >>
    /\ UNCHANGED << variant, texFormat, colourVars, converterVars, convertVars,
                    kernelVars, nvVars, loopVars >>

\* Convert describes the output view: NumElements 32-bit elements
SizeConvertView ==
    /\ szPc = "convert"
    /\ uavBytes' = BigMul(Convert_NumElements(szWidth, szHeight), Big(4))
    /\ szPc' = "read"
    /\ UNCHANGED << szWidth, szHeight, allocSize, readSize, expectedSize >>
    /\ UNCHANGED << variant, texFormat, colourVars, converterVars, convertVars,
                    kernelVars, nvVars, loopVars >>

\* ValidateConversion calls ReadOutputBuffer(buffer, width, height, ...)
SizeReadOutputBuffer ==
    /\ szPc = "read"
    /\ readSize' = ReadOutputBuffer_DataSize(szWidth, szHeight)
    /\ szPc' = "validate"
    /\ UNCHANGED << szWidth, szHeight, allocSize, uavBytes, expectedSize >>
    /\ UNCHANGED << variant, texFormat, colourVars, converterVars, convertVars,
                    kernelVars, nvVars, loopVars >>

\* ValidateYUY2Data computes the size it expects
SizeValidate ==
    /\ szPc = "validate"
    /\ expectedSize' = ValidateYUY2Data_ExpectedSize(szWidth, szHeight)
    /\ szPc' = "done"
    /\ UNCHANGED << szWidth, szHeight, allocSize, uavBytes, readSize >>
    /\ UNCHANGED << variant, texFormat, colourVars, converterVars, convertVars,
                    kernelVars, nvVars, loopVars >>

SizeNext ==
    \/ SizeCreateOutputBuffer
    \/ SizeConvertView
    \/ SizeReadOutputBuffer
    \/ SizeValidate

SpecSize == SizeInit /\ [][SizeNext]_vars

(***************************************************************************)
(* Claims about the byte counts (checked under SpecSize)                   *)
(***************************************************************************)
\* ceil(width / 2) * height * 4 without any wrap-around
ExactYuy2Size(w, h) ==
    BigMul(BigMul(BigAdd(BigDiv(w, 2), Big(w[1] % 2)), h), Big(4))

\* C8 as stated: for every 32-bit width and height, the four byte counts are
\* the same and equal ceil(width/2)*height*4, unchanged by wrap-around.
C8_SizeEqualsExact ==
    szPc = "done" =>
        /\ allocSize = ExactYuy2Size(szWidth, szHeight)
        /\ uavBytes = allocSize
        /\ readSize = allocSize
        /\ expectedSize = allocSize

\* The four byte counts are always the same, and the count is
\* ceil(width/2)*height*4 modulo 2^32: the exact value whenever that is below
\* 2^32, a wrapped value otherwise.
FourSizesAgreeMod32 ==
    szPc = "done" =>
        /\ allocSize = Trunc32(ExactYuy2Size(szWidth, szHeight))
        /\ uavBytes = allocSize
        /\ readSize = allocSize
        /\ expectedSize = allocSize
        /\ (\A i \in 5..9 : ExactYuy2Size(szWidth, szHeight)[i] = 0) =>
               allocSize = ExactYuy2Size(szWidth, szHeight)

(***************************************************************************)
(* Comparison and subtraction of base-256 numbers (used by the decoder for *)
(* operands that are whole 32-bit words)                                   *)
(***************************************************************************)
RECURSIVE BigCmp(_, _, _)
\* compares the digits 1..i of a and b: -1, 0 or 1
BigCmp(a, b, i) ==
    IF i = 0 THEN 0
    ELSE IF a[i] < b[i] THEN 0 - 1
    ELSE IF a[i] > b[i] THEN 1
    ELSE BigCmp(a, b, i - 1)

BigLeq(a, b) == BigCmp(a, b, 9) <= 0

RECURSIVE SubBorrow(_, _, _)
\* borrow out of digit i of a - b
SubBorrow(a, b, i) ==
    IF i = 0 THEN 0
    ELSE IF a[i] - b[i] - SubBorrow(a, b, i - 1) < 0 THEN 1 ELSE 0

\* a - b for a >= b
BigSub(a, b) ==
    LET d(i) == (a[i] - b[i] - SubBorrow(a, b, i - 1) + 256) % 256
    IN  << d(1), d(2), d(3), d(4), d(5), d(6), d(7), d(8), d(9) >>

\* the value of a number below 2^31
BigToInt(a) == a[1] + 256 * a[2] + 65536 * a[3] + 16777216 * a[4]

\* a 32-bit word as a number
BigOfWord(w) == << w[1], w[2], w[3], w[4], 0, 0, 0, 0, 0 >>

\* a clamp of (pos - neg) / DecDen to [0,2] in place of saturate()
SaturateDiff_Wide(pos, neg) ==
    IF BigLeq(pos, neg) THEN 0
    ELSE IF BigLeq(Big(2 * DecDen), BigSub(pos, neg)) THEN 2 * DecDen
    ELSE BigToInt(BigSub(pos, neg))

\* saturate((pos - neg) / DecDen) * DecDen
SaturateDiff(pos, neg) ==
    IF BigLeq(pos, neg) THEN 0
    ELSE IF BigLeq(Big(DecDen), BigSub(pos, neg)) THEN DecDen
    ELSE BigToInt(BigSub(pos, neg))

\* YUVToRGB of the NV12 shader for operands that are 32-bit words
YUVToRGBWords(yw, uw, vw) ==
    LET y == BigOfWord(yw)
        u == BigOfWord(uw)
        v == BigOfWord(vw)
        yy == BigMul(Big(112000), y)
        y16 == Big(16 * 112000)
    IN  << SaturateDiff(BigAdd(yy, BigMul(Big(219 * 701), v)),
                        BigAdd(y16, Big(219 * 701 * 128))),
           SaturateDiff(BigAdd(yy, Big(219 * (172 + 357) * 128)),
                        BigAdd(y16, BigAdd(BigMul(Big(219 * 172), u),
                                           BigMul(Big(219 * 357), v)))),
           SaturateDiff(BigAdd(yy, BigMul(Big(219 * 886), u)),
                        BigAdd(y16, Big(219 * 886 * 128))) >>

(***************************************************************************)
(* NV12ToRGBAConverter and the NV12ToRGBA kernel                           *)
(***************************************************************************)
NvWidths == {1, 2, 3, 4, 8, NvMaxWidth}

NvHeights == {1, 2, 3, NvMaxHeight}

\* a dispatchX that rounds down: width / 16
NvDispatchX_RoundDown(w) == w \div 16

\* Convert: dispatchX = (width + 15) / 16
NvDispatchX(w) == (w + 15) \div 16

\* Convert: dispatchY = (height + 15) / 16
NvDispatchY(h) == (h + 15) \div 16

NvPatterns == {"ramp", "gray", "zeros", "ones"}

\* what a raw-buffer Load does at an address that is not a multiple of 4
UnalignedLoads == {"align_down", "byte_address", "zero"}

\* CreateNV12InputBuffer: totalSize = width * height + width * height / 2
NvTotalSize(w, h) == w * h + (w * h) \div 2

\* the bytes the caller put in the buffer
NvContent(p, w, h) ==
    [i \in 1..NvTotalSize(w, h) |->
        IF p = "ramp" THEN (16 + 17 * (i - 1)) % 256
        ELSE IF p = "gray" THEN 128
        ELSE IF p = "zeros" THEN 0
        ELSE 255]

\* Convert: inputUavDesc.Buffer.NumElements = (width * height * 3 / 2) / 4
NvNumElements(w, h) == ((w * h * 3) \div 2) \div 4

\* the byte of the view at an offset; outside the view a read gives 0
NvViewByte(buf, viewBytes, off) ==
    IF off < viewBytes /\ off < Len(buf) THEN buf[off + 1] ELSE 0

\* InputBuffer.Load(addr): one 32-bit word, little-endian
InputBufferLoad(buf, viewBytes, mode, addr) ==
    IF addr % 4 = 0 \/ mode = "byte_address"
    THEN [i \in 1..4 |-> NvViewByte(buf, viewBytes, addr + i - 1)]
    ELSE IF mode = "align_down"
    THEN [i \in 1..4 |-> NvViewByte(buf, viewBytes, addr - (addr % 4) + i - 1)]
    ELSE << 0, 0, 0, 0 >>

\* OutputTexture[pixelPos] = float4(rgb, 1.0f) through the R8G8B8A8_UNORM
\* view: each channel c becomes the byte round(c * 255); rgb holds numerators
\* over DecDen (255 / DecDen = 17 / 1635200)
OutputTextureStore(rgb) ==
    << Round(17 * rgb[1], 1635200), Round(17 * rgb[2], 1635200),
       Round(17 * rgb[3], 1635200), Round(255 * 1, 1) >>

\* a kernel that clears the luma byte it has just read
InputBufferAfter_ClearsLuma(buf, yOffset) ==
    [i \in DOMAIN buf |-> IF i = yOffset + 1 THEN 0 ELSE buf[i]]

\* InputBuffer after one thread: the kernel calls InputBuffer.Load only and
\* never a Store, so the bytes are the ones it started with
InputBufferAfter(buf, yOffset) == buf

\* the NV12 kernel for one thread
NvCSMain(buf, viewBytes, mode, P, id) ==
    IF OutsideImage(id.x, id.y, P.ImageWidth, P.ImageHeight)
    THEN [store |-> FALSE, loads |-> NoLoads, input |-> buf]
    ELSE LET yOffset == id.y * P.YPlaneStride + id.x
             yValue == InputBufferLoad(buf, viewBytes, mode, yOffset)
             uvX == (id.x \div 2) * 2
             uvY == id.y \div 2
             uvPlaneOffset == P.ImageWidth * P.ImageHeight
             uvOffset == uvPlaneOffset + uvY * P.UVPlaneStride + uvX
             uValue == InputBufferLoad(buf, viewBytes, mode, uvOffset)
             vValue == InputBufferLoad(buf, viewBytes, mode, uvOffset + 1)
         IN  [store |-> TRUE,
              input |-> InputBufferAfter(buf, yOffset),
              loads |-> [x |-> id.x, y |-> id.y,
                         yOffset |-> yOffset, uvOffset |-> uvOffset,
                         yValue |-> yValue, uValue |-> uValue, vValue |-> vValue,
                         rgb |-> YUVToRGBWords(yValue, uValue, vValue)]]

NvStart(orders) ==
    /\ order \in orders
    /\ variant = "raw"
    /\ texFormat = "B8G8R8A8_UNORM"
    /\ ColourIdle
    /\ ConverterIdle
    /\ ConvertIdle
    /\ SizeIdle
    /\ nvPc = "constructed"
    /\ nvWidth \in NvWidths
    /\ nvHeight \in NvHeights
    /\ \E p \in NvPatterns : nvBuffer = NvContent(p, nvWidth, nvHeight)
    /\ nvParams = [ImageWidth |-> 0, ImageHeight |-> 0,
                   YPlaneStride |-> 0, UVPlaneStride |-> 0]
    /\ nvGrid = << 0, 0 >>
    /\ nvCursor = 0
    /\ nvLoads = NoLoads
    /\ nvOutput = {}
    /\ nvWrites = 0
    /\ unalignedLoad \in UnalignedLoads
    /\ RgbaIdle
    /\ LoopIdle

NvInit == NvStart({"forward"})

NvUnchangedOthers ==
    UNCHANGED << variant, texFormat, colourVars, converterVars, convertVars,
                 kernelVars, sizeVars, loopVars >>

\* NV12ToRGBAConverter::Initialize: the shader compiles and the constant
\* buffer is created, or one of them fails
NvInitialize ==
    /\ nvPc = "constructed"
    /\ \E ok \in BOOLEAN : nvPc' = IF ok THEN "ready" ELSE "init_failed"
    /\ UNCHANGED << nvWidth, nvHeight, nvBuffer, nvParams, nvGrid, nvCursor,
                    nvLoads, nvOutput, nvWrites, unalignedLoad, rgbaVars >>
    /\ NvUnchangedOthers

\* NV12ToRGBAConverter::Convert up to Dispatch
NvConvert ==
    /\ nvPc \in {"ready", "init_failed"}
    /\ \/ /\ nvPc = "init_failed"
          /\ nvPc' = "E_INVALIDARG"
          /\ UNCHANGED << nvParams, nvGrid >>
       \/ /\ nvPc = "ready"
          /\ nvPc' = "E_FAIL"
          /\ UNCHANGED << nvParams, nvGrid >>
       \/ /\ nvPc = "ready"
          /\ nvPc' = "dispatched"
          /\ nvParams' = [ImageWidth |-> nvWidth, ImageHeight |-> nvHeight,
                          YPlaneStride |-> nvWidth, UVPlaneStride |-> nvWidth]
          /\ nvGrid' = << NvDispatchX(nvWidth), NvDispatchY(nvHeight) >>
    /\ UNCHANGED << nvWidth, nvHeight, nvBuffer, nvCursor, nvLoads, nvOutput,
                    nvWrites, unalignedLoad, rgbaVars >>
    /\ NvUnchangedOthers

NvGridItems == nvGrid[1] * nvGrid[2] * GroupW * GroupH

\* one thread of the dispatch
NvWorkItem ==
    /\ nvPc = "dispatched"
    /\ nvCursor < NvGridItems
    /\ LET id == ThreadId(Schedule(order, nvCursor, NvGridItems), nvGrid[1])
           r == NvCSMain(nvBuffer, NvNumElements(nvWidth, nvHeight) * 4,
                         unalignedLoad, nvParams, id)
       IN  /\ nvLoads' = r.loads
           /\ nvOutput' = IF r.store
                          THEN {e \in nvOutput : e.pos # << id.x, id.y >>}
                               \cup {[pos |-> << id.x, id.y >>,
                                      rgba |-> OutputTextureStore(r.loads.rgb)]}
                          ELSE nvOutput
           /\ nvWrites' = IF r.store THEN nvWrites + 1 ELSE nvWrites
           /\ nvBuffer' = r.input
    /\ nvCursor' = nvCursor + 1
    /\ UNCHANGED << nvPc, nvWidth, nvHeight, nvParams, nvGrid, unalignedLoad, rgbaVars >>
    /\ NvUnchangedOthers

\* Convert after Dispatch: unbind, release, return S_OK
NvConvertFinish ==
    /\ nvPc = "dispatched"
    /\ nvCursor = NvGridItems
    /\ nvPc' = "S_OK"
    /\ UNCHANGED << nvWidth, nvHeight, nvBuffer, nvParams, nvGrid, nvCursor,
                    nvLoads, nvOutput, nvWrites, unalignedLoad, rgbaVars >>
    /\ NvUnchangedOthers

NvNext ==
    \/ NvInitialize
    \/ NvConvert
    \/ NvWorkItem
    \/ NvConvertFinish

SpecNV12 == NvInit /\ [][NvNext]_vars

(***************************************************************************)
(* Claims about the NV12 decoder (checked under SpecNV12)                  *)
(***************************************************************************)
\* the single byte at a byte offset of the input buffer, as a 32-bit value
NvSingleByte(off) == << NvViewByte(nvBuffer, Len(nvBuffer), off), 0, 0, 0 >>

\* C6: for every output pixel the decoder uses as luma the single byte at
\* y*YPlaneStride + x, and as U and V the two consecutive single bytes at
\* width*height + (y/2)*UVPlaneStride + (x - x mod 2); each value is in 0..255.
C6_DecodeUsesSingleBytes ==
    nvLoads # NoLoads =>
        /\ nvLoads.yOffset = nvLoads.y * nvParams.YPlaneStride + nvLoads.x
        /\ nvLoads.uvOffset = nvParams.ImageWidth * nvParams.ImageHeight
                              + (nvLoads.y \div 2) * nvParams.UVPlaneStride
                              + (nvLoads.x - (nvLoads.x % 2))
        /\ nvLoads.yValue = NvSingleByte(nvLoads.yOffset)
        /\ nvLoads.uValue = NvSingleByte(nvLoads.uvOffset)
        /\ nvLoads.vValue = NvSingleByte(nvLoads.uvOffset + 1)

(***************************************************************************)
(* Claims about the results Convert returns (checked under Spec)           *)
(***************************************************************************)
\* C11: the result Convert returns when creating a view or mapping the
\* constant buffer fails is never the result it returns for a rejected input
\* format (E_INVALIDARG).
C11_ResourceFailureIsNotInvalidArg ==
    (pc = "done" /\ hr # "S_OK" /\ calls # << >>) => hr # "E_INVALIDARG"

(***************************************************************************)
(* Demo::Run, MainLoop and ProcessFrame (BGRA to YUY2 mode)                *)
(***************************************************************************)
CaptureVersions == {"old", "new"}

\* results of IDXGIOutputDuplication::AcquireNextFrame other than success and
\* DXGI_ERROR_WAIT_TIMEOUT
AcquireFailures == {"DXGI_ERROR_ACCESS_LOST", "DXGI_ERROR_DEVICE_REMOVED"}

\* results of QueryInterface / CreateTexture2D / CreateBuffer when they fail
CreateFailures == {"E_OUTOFMEMORY", "DXGI_ERROR_DEVICE_REMOVED"}

\* the format of the texture CaptureFrame hands out: the new version forces
\* B8G8R8A8_UNORM, the old one keeps the desktop's format
CapturedFormats(version) ==
    IF version = "new" THEN {"B8G8R8A8_UNORM"} ELSE TextureFormats

\* the results Convert can return for a non-null texture of format f on an
\* initialized converter; a texture made by another device than the
\* converter's cannot be given a view by the converter's device
ConvertResults(f, sameDevice) ==
    IF ~ IsSupportedFormat(f) THEN {"E_INVALIDARG"}
    ELSE IF ~ sameDevice THEN DeviceFailures
    ELSE DeviceFailures \cup {"E_FAIL", "S_OK"}

\* durations MainLoop can measure for a frame, in arbitrary units
FrameDurations == {1, 2}

Ev(op, frame) == [op |-> op, frame |-> frame]

LoopInit ==
    /\ order = "forward"
    /\ variant = "raw"
    /\ texFormat = "B8G8R8A8_UNORM"
    /\ ColourIdle
    /\ ConverterIdle
    /\ ConvertIdle
    /\ SizeIdle
    /\ NvIdle
    /\ loopPc = "start"
    /\ runResult = "none"
    /\ m_frameCount = 0
    /\ m_totalFrameTime = 0
    /\ loopHr = "none"
    /\ capturedTexture = Null
    /\ outputBuffer = Null
    /\ iterLog = << >>
    /\ captures = 0
    /\ skipped = 0
    /\ captureVersion \in CaptureVersions
    /\ captureInitialized = FALSE
    /\ countedBefore = 0
    /\ captureDevice = 0
    /\ converterDevice = 0

LoopUnchangedOthers ==
    UNCHANGED << variant, texFormat, colourVars, converterVars, convertVars,
                 kernelVars, sizeVars, nvVars >>

\* Run / RunBGRAToYUY2Demo: initialize the capture and the converter, enter
\* MainLoop; a failed initialization throws and Run returns -1
RunBGRAToYUY2Demo ==
    /\ loopPc = "start"
    /\ \E captureOk \in BOOLEAN, converterOk \in BOOLEAN :
         /\ captureInitialized' = captureOk
         /\ captureDevice' = IF captureOk THEN 1 ELSE 0
         /\ converterDevice' = IF captureOk /\ converterOk THEN 1 ELSE 0
         /\ IF captureOk /\ converterOk
            THEN loopPc' = "top" /\ runResult' = runResult
            ELSE loopPc' = "returned" /\ runResult' = "-1"
    /\ UNCHANGED << m_frameCount, m_totalFrameTime, loopHr, capturedTexture,
                    outputBuffer, iterLog, captures, skipped, captureVersion,
                    countedBefore >>
    /\ LoopUnchangedOthers

\* DXGICapture::CaptureFrame: what it can return, what it logs itself, what it
\* leaves in m_initialized and the texture it hands out (frame number n)
CaptureFrameOutcomes(version, initialized, n, d) ==
    IF ~ initialized
    THEN {[hr |-> "E_FAIL", log |-> << >>, initialized |-> FALSE, texture |-> Null,
           device |-> d]}
    ELSE {[hr |-> "DXGI_ERROR_WAIT_TIMEOUT", log |-> << >>,
           initialized |-> TRUE, texture |-> Null, device |-> d]}
         \cup {[hr |-> acq, log |-> << Ev("LogError@CaptureFrame", 0) >>,
                initialized |-> TRUE, texture |-> Null, device |-> d] :
               acq \in IF version = "new"
                       THEN AcquireFailures \ {"DXGI_ERROR_ACCESS_LOST"}
                       ELSE AcquireFailures}
         \cup (IF version = "new"
               THEN (IF d < MaxDevices
                     THEN {[hr |-> "DXGI_ERROR_WAIT_TIMEOUT",
                            log |-> << Ev("LogError@CaptureFrame", 0),
                                       Ev("LogError@CaptureFrame", 0) >>,
                            initialized |-> TRUE, texture |-> Null,
                            device |-> d + 1]}
                     ELSE {})
                    \cup {[hr |-> "DXGI_ERROR_ACCESS_LOST",
                           log |-> << Ev("LogError@CaptureFrame", 0),
                                      Ev("LogError@CaptureFrame", 0) >>,
                           initialized |-> FALSE, texture |-> Null, device |-> 0]}
               ELSE {})
         \cup {[hr |-> f, log |-> << >>, initialized |-> TRUE, texture |-> Null,
                device |-> d] :
               f \in CreateFailures}
         \cup {[hr |-> "S_OK", log |-> << >>, initialized |-> TRUE,
                texture |-> [frame |-> n, format |-> f], device |-> d] :
               f \in CapturedFormats(version)}

\* a ProcessFrame that logs every result of CaptureFrame except success
CaptureResultLog_LogsTimeout(result) ==
    IF result = "S_OK" THEN << >> ELSE << Ev("LogError@ProcessFrame", 0) >>

\* ProcessFrame: what it logs for CaptureFrame's result
CaptureResultLog(result) ==
    IF result = "DXGI_ERROR_WAIT_TIMEOUT" THEN << >>
    ELSE IF result # "S_OK" THEN << Ev("LogError@ProcessFrame", 0) >>
    ELSE << >>

\* ProcessFrame up to and including the tests of CaptureFrame's result
LoopCaptureFrame ==
    /\ loopPc = "top"
    /\ \E o \in CaptureFrameOutcomes(captureVersion, captureInitialized,
                                     captures + 1, captureDevice) :
         /\ o.hr = "S_OK" => captures < countedBefore + MaxCaptures
         /\ loopHr' = o.hr
         /\ captureInitialized' = o.initialized
         /\ captureDevice' = o.device
         /\ capturedTexture' = o.texture
         /\ captures' = IF o.hr = "S_OK" THEN captures + 1 ELSE captures
         /\ iterLog' = << Ev("CaptureFrame", IF o.hr = "S_OK" THEN captures + 1 ELSE 0) >>
                       \o o.log \o CaptureResultLog(o.hr)
         /\ loopPc' = IF o.hr = "S_OK" THEN "create" ELSE "sleep"
    /\ UNCHANGED << runResult, m_frameCount, m_totalFrameTime, outputBuffer,
                    skipped, captureVersion,
                    countedBefore, converterDevice >>
    /\ LoopUnchangedOthers

\* a SAFE_RELEASE that leaves the pointer as it was
SafeRelease_Leak(ptr) == ptr

\* SAFE_RELEASE(p): the object is released and the pointer set to null
SafeRelease(ptr) == Null

\* a pair of releases that forgets the captured texture
ReleaseBoth_BufferOnly(texture, buffer) ==
    [texture |-> texture, buffer |-> SafeRelease(buffer),
     log |-> << Ev("ReleaseBuffer", buffer.frame) >>]

\* SAFE_RELEASE(capturedTexture); SAFE_RELEASE(outputBuffer); the two
\* pointers afterwards and the releases made
ReleaseBoth(texture, buffer) ==
    [texture |-> SafeRelease(texture), buffer |-> SafeRelease(buffer),
     log |-> << Ev("ReleaseTexture", texture.frame),
                Ev("ReleaseBuffer", buffer.frame) >>]

\* an output buffer left over from the frame before
NewOutputBuffer_Stale(texture) == [frame |-> texture.frame - 1, format |-> "buffer"]

\* CreateOutputBuffer(width, height, &outputBuffer): a fresh buffer for the
\* frame just captured
NewOutputBuffer(texture) == [frame |-> texture.frame, format |-> "buffer"]

\* ProcessFrame: CreateOutputBuffer for the captured frame
LoopCreateOutputBuffer ==
    /\ loopPc = "create"
    /\ \/ /\ outputBuffer' = NewOutputBuffer(capturedTexture)
          /\ loopHr' = "S_OK"
          /\ iterLog' = Append(iterLog, Ev("CreateOutputBuffer", capturedTexture.frame))
          /\ capturedTexture' = capturedTexture
          /\ loopPc' = "convert"
       \/ /\ \E f \in CreateFailures : loopHr' = f
          /\ outputBuffer' = outputBuffer
          /\ capturedTexture' = SafeRelease(capturedTexture)
          /\ iterLog' = iterLog \o << Ev("CreateOutputBuffer", capturedTexture.frame),
                                      Ev("LogError@CreateOutputBuffer", 0),
                                      Ev("ReleaseTexture", capturedTexture.frame),
                                      Ev("LogError@ProcessFrame", 0) >>
          /\ loopPc' = "sleep"
    /\ UNCHANGED << runResult, m_frameCount, m_totalFrameTime, captures, skipped,
                    captureVersion, captureInitialized,
                    countedBefore, captureDevice, converterDevice >>
    /\ LoopUnchangedOthers

\* ProcessFrame: Convert and the handling of its failure
LoopConvert ==
    /\ loopPc = "convert"
    /\ \E r \in ConvertResults(capturedTexture.format,
                                captureDevice = converterDevice) :
         /\ loopHr' = r
         /\ IF r = "S_OK"
            THEN /\ iterLog' = Append(iterLog, [op |-> "Convert",
                                                frame |-> capturedTexture.frame,
                                                buffer |-> outputBuffer.frame])
                 /\ UNCHANGED << capturedTexture, outputBuffer, skipped >>
                 /\ loopPc' = "validate"
            ELSE /\ iterLog' = iterLog \o
                        << [op |-> "Convert", frame |-> capturedTexture.frame,
                            buffer |-> outputBuffer.frame],
                           Ev("LogError@Convert", 0) >>
                        \o ReleaseBoth(capturedTexture, outputBuffer).log
                        \o (IF r = "E_INVALIDARG" THEN << >>
                            ELSE << Ev("LogError@ProcessFrame", 0) >>)
                 /\ capturedTexture' = ReleaseBoth(capturedTexture, outputBuffer).texture
                 /\ outputBuffer' = ReleaseBoth(capturedTexture, outputBuffer).buffer
                 /\ skipped' = IF r = "E_INVALIDARG" THEN skipped + 1 ELSE skipped
                 /\ loopPc' = "sleep"
    /\ UNCHANGED << runResult, m_frameCount, m_totalFrameTime, captures,
                    captureVersion, captureInitialized,
                    countedBefore, captureDevice, converterDevice >>
    /\ LoopUnchangedOthers

\* a ProcessFrame that validates every frame
ValidatesFrame_Every(n) == TRUE

\* ProcessFrame validates the frame when 30 frames have been counted and when
\* the count is a multiple of 300
ValidatesFrame(n) == n = 30 \/ n % 300 = 0

\* how ValidateConversion ends: ReadOutputBuffer fails, or the data is read
\* back and ValidateYUY2Data passes or fails; each ends in one log line
ValidationOutcomes ==
    {"LogMessage@PASSED", "LogError@FAILED", "LogError@ReadOutputBuffer"}

\* ProcessFrame after a successful Convert (optional ValidateConversion, both
\* releases, return true) and MainLoop's bookkeeping for a processed frame
LoopValidateAndCount ==
    /\ loopPc = "validate"
    /\ \E v \in ValidationOutcomes :
         iterLog' = iterLog
                    \o (IF ValidatesFrame(m_frameCount)
                        THEN << Ev("ValidateConversion", outputBuffer.frame),
                                Ev(v, outputBuffer.frame) >>
                        ELSE << >>)
                    \o ReleaseBoth(capturedTexture, outputBuffer).log
    /\ capturedTexture' = ReleaseBoth(capturedTexture, outputBuffer).texture
    /\ outputBuffer' = ReleaseBoth(capturedTexture, outputBuffer).buffer
    /\ m_frameCount' = m_frameCount + 1
    /\ \E d \in FrameDurations : m_totalFrameTime' = m_totalFrameTime + d
    /\ loopPc' = "sleep"
    /\ UNCHANGED << runResult, loopHr, captures, skipped, captureVersion,
                    captureInitialized,
                    countedBefore, captureDevice, converterDevice >>
    /\ LoopUnchangedOthers

\* MainLoop: sleep_for(16 ms) and the next trip round while (true)
LoopSleep ==
    /\ loopPc = "sleep"
    /\ loopPc' = "top"
    /\ loopHr' = "none"
    /\ iterLog' = << >>
    /\ UNCHANGED << runResult, m_frameCount, m_totalFrameTime, capturedTexture,
                    outputBuffer, captures, skipped, captureVersion,
                    captureInitialized,
                    countedBefore, captureDevice, converterDevice >>
    /\ LoopUnchangedOthers

LoopNext ==
    \/ RunBGRAToYUY2Demo
    \/ LoopCaptureFrame
    \/ LoopCreateOutputBuffer
    \/ LoopConvert
    \/ LoopValidateAndCount
    \/ LoopSleep

SpecLoop == LoopInit /\ [][LoopNext]_vars

(***************************************************************************)
(* Claims about the capture loop (checked under SpecLoop)                  *)
(***************************************************************************)
\* a result that says the device, the execution context itself, is gone
FatalResults == {"DXGI_ERROR_DEVICE_REMOVED"}

\* C12: when frame acquisition or conversion fails with a fatal failure (the
\* execution context is unusable), MainLoop stops iterating and the failure is
\* propagated to Run's caller instead of being skipped.
C12_FatalFailureStopsLoop ==
    loopHr \in FatalResults => (loopPc = "returned" /\ runResult = "-1")

\* some entry of the log is one of the operations ops
LogHas(log, ops) == \E i \in 1..Len(log) : log[i].op \in ops

\* C13: when CaptureFrame returns DXGI_ERROR_WAIT_TIMEOUT, ProcessFrame returns
\* false without logging an error, creating an output buffer or calling
\* Convert; the frame counter and the accumulated time stay unchanged, and
\* MainLoop goes on to the next iteration.
C13_NoNewFrameIsSkipped ==
    [][ /\ (loopPc = "top" /\ loopHr' = "DXGI_ERROR_WAIT_TIMEOUT") =>
              /\ loopPc' = "sleep"
              /\ ~ LogHas(iterLog', {"LogError@ProcessFrame", "CreateOutputBuffer",
                                     "Convert"})
              /\ outputBuffer' = Null
              /\ m_frameCount' = m_frameCount
              /\ m_totalFrameTime' = m_totalFrameTime
        /\ (loopPc = "sleep" /\ loopHr = "DXGI_ERROR_WAIT_TIMEOUT") =>
              /\ loopPc' = "top"
              /\ runResult' = "none"
              /\ m_frameCount' = m_frameCount
              /\ m_totalFrameTime' = m_totalFrameTime ]_vars

\* C13 witness: after one frame has been processed and counted, an iteration
\* met "no new frame" and ProcessFrame has returned.
C13_Witness ==
    /\ loopPc = "sleep"
    /\ loopHr = "DXGI_ERROR_WAIT_TIMEOUT"
    /\ iterLog = << Ev("CaptureFrame", 0) >>
    /\ m_frameCount = 1
    /\ m_totalFrameTime >= 1

\* C14: when Convert fails with the format-rejection result, ProcessFrame
\* releases the frame's texture and output buffer and returns false without
\* counting the frame, and MainLoop keeps running: the next iteration starts,
\* whatever number of rejections came before.
C14_FormatRejectionIsSkip ==
    [][ /\ (loopPc = "convert" /\ loopHr' = "E_INVALIDARG") =>
              /\ capturedTexture' = Null
              /\ outputBuffer' = Null
              /\ LogHas(iterLog', {"ReleaseTexture"})
              /\ LogHas(iterLog', {"ReleaseBuffer"})
              /\ ~ LogHas(iterLog', {"ValidateConversion"})
              /\ m_frameCount' = m_frameCount
              /\ m_totalFrameTime' = m_totalFrameTime
              /\ loopPc' = "sleep"
              /\ runResult' = "none"
        /\ (loopPc = "sleep" /\ loopHr = "E_INVALIDARG") =>
              /\ loopPc' = "top"
              /\ runResult' = "none" ]_vars

\* C14 witness: two frames in a row were rejected and skipped, and the
\* iteration after them has acquired a third frame and converted it.
C14_Witness ==
    /\ loopPc = "validate"
    /\ loopHr = "S_OK"
    /\ skipped = 2
    /\ captures = 3
    /\ m_frameCount = 0
    /\ capturedTexture # Null
    /\ capturedTexture.frame = 3

\* C15: inside one iteration Convert is called only after CaptureFrame
\* succeeded in that iteration, on that frame's texture and output buffer, and
\* ValidateConversion only after Convert succeeded in that iteration and on
\* that iteration's output buffer; the frame is always the newest one.
C15_OrderInsideIteration ==
    \A i \in 1..Len(iterLog) :
        /\ iterLog[i].op = "Convert" =>
              /\ iterLog[i].frame = captures
              /\ iterLog[i].buffer = captures
              /\ \E j \in 1..(i - 1) : iterLog[j] = Ev("CaptureFrame", captures)
              /\ \E j \in 1..(i - 1) : iterLog[j] = Ev("CreateOutputBuffer", captures)
        /\ iterLog[i].op = "ValidateConversion" =>
              /\ iterLog[i].frame = captures
              /\ i > 1
              /\ iterLog[i - 1].op = "Convert"
              /\ iterLog[i - 1].buffer = iterLog[i].frame
              /\ loopHr = "S_OK"

\* C15 witness: the first captured frame was dropped, and the iteration of the
\* second frame has converted and validated it and counted it as frame one.
C15_Witness ==
    /\ loopPc = "sleep"
    /\ m_frameCount = 1
    /\ captures = 2
    /\ LogHas(iterLog, {"ValidateConversion"})
    /\ LogHas(iterLog, {"Convert"})

(***************************************************************************)
(* SpecKernels: one Convert call of either converter, with its dispatch    *)
(***************************************************************************)
KernelsInit == Init \/ NvInit

KernelsNext == Next \/ NvNext

SpecKernels == KernelsInit /\ [][KernelsNext]_vars

\* C16: a work item whose coordinate lies outside the image (encoder:
\* 2*id.x >= width or id.y >= height; decoder: id.x >= width or
\* id.y >= height) returns before any texture or buffer access: it reads
\* nothing and writes nothing.
C16_BoundaryPolicy ==
    [][ /\ ( /\ pc = "run"
             /\ cursor' = cursor + 1
             /\ LET id == ThreadId(Schedule(order, cursor, GridItems), grid[1])
                IN  2 * id.x >= width \/ id.y >= height ) =>
              /\ texReads' = {}
              /\ OutputBuffer' = OutputBuffer
              /\ writes' = writes
              /\ oobStores' = oobStores
        /\ ( /\ nvPc = "dispatched"
             /\ nvCursor' = nvCursor + 1
             /\ LET id == ThreadId(Schedule(order, nvCursor, NvGridItems), nvGrid[1])
                IN  id.x >= nvWidth \/ id.y >= nvHeight ) =>
              /\ nvLoads' = NoLoads
              /\ nvOutput' = nvOutput
              /\ nvWrites' = nvWrites
              /\ nvBuffer' = nvBuffer ]_vars

\* C16 witness: in a 3-pixel-wide image the encoder's third work item of the
\* first row (2*id.x = 4) has run after the two that wrote, and read nothing.
C16_Witness ==
    /\ pc = "run"
    /\ width = 3
    /\ cursor = 3
    /\ texReads = {}
    /\ writes[1] # << >>
    /\ writes[2] # << >>

(***************************************************************************)
(* Claims about the NV12 dispatch (checked under SpecNV12)                 *)
(***************************************************************************)
\* the NV12 dispatch has run all its work items
NvDispatchComplete == (nvPc = "dispatched" /\ nvCursor = NvGridItems) \/ nvPc = "S_OK"

\* the positions OutputTexture has been written at
NvWrittenPositions == {e.pos : e \in nvOutput}

\* C17: the (width+15)/16 by (height+15)/16 grid of 16x16 work items with the
\* bounds check makes exactly one work item write each output pixel of
\* [0,width) x [0,height), and no work item writes outside that rectangle.
C17_Nv12GridCoverage ==
    /\ nvPc \in {"dispatched", "S_OK"} =>
          /\ nvGrid = << (nvWidth + 15) \div 16, (nvHeight + 15) \div 16 >>
          /\ \A q \in NvWrittenPositions :
                q[1] \in 0..(nvWidth - 1) /\ q[2] \in 0..(nvHeight - 1)
          /\ nvWrites = Cardinality(NvWrittenPositions)
    /\ NvDispatchComplete =>
          /\ NvWrittenPositions = (0..(nvWidth - 1)) \X (0..(nvHeight - 1))
          /\ nvWrites = nvWidth * nvHeight

\* C17 witness: the dispatch over the largest image, two groups across and
\* two down, has completed and its last pixel (in the last group) is written.
C17_Witness ==
    /\ nvPc = "S_OK"
    /\ nvWidth = NvMaxWidth
    /\ nvHeight = NvMaxHeight
    /\ nvGrid = << 2, 2 >>
    /\ << nvWidth - 1, nvHeight - 1 >> \in NvWrittenPositions
    /\ nvWrites = nvWidth * nvHeight

(***************************************************************************)
(* The mid-gray image (checked under Spec)                                 *)
(***************************************************************************)
\* the four bytes Y0, U, Y1, V of a mid-gray macropixel
MidGrayMacro == << 126, 128, 126, 128 >>

\* C18: for a uniform image with R = G = B = 128, of any width and height
\* (odd widths included) and in any supported texture format, every
\* macropixel the encoder writes is Y0 = Y1 = 126, U = 128, V = 128, at every
\* point of the dispatch and for both shader variants.
C18_MidGrayScenario ==
    pattern = "gray" =>
        \A s \in DOMAIN OutputBuffer :
            writes[s] # << >> => OutputBuffer[s] = MidGrayMacro

\* C18 witness: a complete dispatch over an odd-width mid-gray image of more
\* than one row, whose last macropixel (built from a single pixel) is written.
C18_Witness ==
    /\ pattern = "gray"
    /\ width % 2 = 1
    /\ height > 1
    /\ pc = "done"
    /\ hr = "S_OK"
    /\ writes[CeilHalf(width) * height] # << >>
    /\ OutputBuffer[CeilHalf(width) * height] = MidGrayMacro

\* the texels the output texture holds at position q
NvTexelsAt(q) == {e.rgba : e \in {o \in nvOutput : o.pos = q}}

\* C19: after a successful NV12 -> RGBA Convert every pixel of the output
\* texture in [0, width) x [0, height) has been written, has alpha 255 and has
\* R, G and B each in 0..255, whatever bytes the input buffer holds and
\* whatever a load at an unaligned address returns.
C19_DecoderOutputValid ==
    nvPc = "S_OK" =>
        \A x \in 0..(nvWidth - 1) : \A y \in 0..(nvHeight - 1) :
            /\ Cardinality(NvTexelsAt(<< x, y >>)) = 1
            /\ \A t \in NvTexelsAt(<< x, y >>) :
                 /\ t[4] = 255
                 /\ \A i \in 1..3 : t[i] \in 0..255

\* C19 witness: a successful Convert whose output holds both a channel that
\* saturated at 255 and a channel that saturated at 0.
C19_Witness ==
    /\ nvPc = "S_OK"
    /\ nvWidth > 1
    /\ nvHeight > 1
    /\ \E e \in nvOutput : \E i \in 1..3 : e.rgba[i] = 255 /\ e.rgba[4] = 255
    /\ \E e \in nvOutput : \E i \in 1..3 : e.rgba[i] = 0 /\ e.rgba[4] = 255

(***************************************************************************)
(* The input of a Convert call (checked under SpecKernels)                 *)
(***************************************************************************)
\* the input texture of the encoder: its format, size and texels
InputTextureState == << texFormat, width, height, pattern >>

\* the data a dispatch of either kernel can leave changed
OutputState == << OutputBuffer, nvOutput >>

\* a Convert call of either converter has returned a failure
ConvertFailed ==
    \/ pc = "done" /\ hr # "S_OK"
    \/ nvPc \in {"E_FAIL", "E_INVALIDARG"}

\* C20: no step of a Convert call (BGRA -> YUY2 on the input texture,
\* NV12 -> RGBA on the input buffer), up to and including the step in which
\* it returns success or failure, changes a byte of its input; the image data
\* a call changes is the output buffer or the output texture only, and a call
\* that fails before its dispatch changes neither.
C20_InputNeverModified ==
    [][ /\ InputTextureState' = InputTextureState
        /\ nvBuffer' = nvBuffer
        /\ (nvWidth' = nvWidth /\ nvHeight' = nvHeight)
        /\ (ConvertFailed' /\ ~ ConvertFailed) => OutputState' = OutputState
      ]_vars

\* C20 witness: a successful NV12 Convert has written the whole output texture
\* from a buffer of differing bytes, and the buffer still holds the bytes the
\* caller put in it.
C20_Witness ==
    /\ nvPc = "S_OK"
    /\ nvWrites = nvWidth * nvHeight
    /\ nvWidth > 1
    /\ nvBuffer = NvContent("ramp", nvWidth, nvHeight)
    /\ nvBuffer[1] # nvBuffer[2]

(***************************************************************************)
(* The two shader variants compared (checked under SpecColour)             *)
(***************************************************************************)
\* Y0, U, Y1, V that variant v stores for two colours handed to its RGBToYUV
\* as they are: transform, chroma average, rounding
VariantMacro(v, rgb0, rgb1) ==
    LET yuv0 == RGBToYUV(v, rgb0)
        yuv1 == RGBToYUV(v, rgb1)
    IN  << Round(yuv0[1], YDen), Round(yuv0[2] + yuv1[2], 2 * CDen),
           Round(yuv1[1], YDen), Round(yuv0[3] + yuv1[3], 2 * CDen) >>

\* C21: the raw-buffer variant (-0.14713/0.436/0.615 coefficients, remap
\* (x+0.5)*224+16) and the structured-buffer variant (0.169/0.331/0.500
\* matrix, remap x*224+128) store the same four macropixel bytes for every
\* pair of input colours handed to both in the same R, G, B order.
C21_VariantsAgree ==
    stage = "encoded" =>
        VariantMacro("raw", enc.rgb0, enc.rgb1)
            = VariantMacro("structured", enc.rgb0, enc.rgb1)

(***************************************************************************)
(* Read offsets of the NV12 kernel (checked under SpecNV12)                *)
(***************************************************************************)
\* the thread that ran last passed the bounds check and issued its loads
NvThreadLoaded == nvPc \in {"dispatched", "S_OK"} /\ nvLoads # NoLoads

\* C22: for every width and height, odd values included, and every in-range
\* output pixel of a dispatch Convert issued, the luma read offset is below
\* width*height and both chroma read offsets lie in
\* [width*height, width*height*3/2), inside the buffer CreateNV12InputBuffer
\* allocates (dimensions for which this fails never reach a dispatch).
C22_NeverReadsPastPlane ==
    NvThreadLoaded =>
        /\ nvLoads.yOffset < nvWidth * nvHeight
        /\ nvLoads.uvOffset >= nvWidth * nvHeight
        /\ nvLoads.uvOffset + 1 < NvTotalSize(nvWidth, nvHeight)

(***************************************************************************)
(* SpecOrder: both kernels, the work items of a dispatch in several orders *)
(***************************************************************************)
OrderInit ==
    \/ /\ EncoderInit(Orders)
       /\ texFormat = "B8G8R8A8_UNORM"
       /\ pattern = "ramp"
    \/ /\ NvStart(Orders)
       /\ nvBuffer = NvContent("ramp", nvWidth, nvHeight)
       /\ unalignedLoad = "align_down"

OrderNext == Next \/ NvNext

SpecOrder == OrderInit /\ [][OrderNext]_vars

\* the output buffer after work item i of the grid has run on buffer buf
EncoderAfterItem(buf, i) ==
    LET r == CSMain(variant, SrvFormat(texFormat), pattern,
                    ThreadId(i, grid[1]), width, height)
    IN  IF r.store /\ r.index < UavNumElements(width, height)
        THEN [buf EXCEPT ![r.index + 1] = r.word]
        ELSE buf

\* the output buffer after the work items lo .. hi-1 have run on buffer buf
\* one after the other in index order (a buffer without slots stays as it is)
RECURSIVE EncoderInIndexOrder(_, _, _)
EncoderInIndexOrder(buf, lo, hi) ==
    IF DOMAIN buf = {} \/ hi <= lo THEN buf
    ELSE IF hi = lo + 1 THEN EncoderAfterItem(buf, lo)
    ELSE LET mid == (lo + hi) \div 2
         IN  EncoderInIndexOrder(EncoderInIndexOrder(buf, lo, mid), mid, hi)

\* the output texture after work item i of the NV12 grid has run on texels tex
NvAfterItem(tex, i) ==
    LET id == ThreadId(i, nvGrid[1])
        r == NvCSMain(nvBuffer, NvNumElements(nvWidth, nvHeight) * 4,
                      unalignedLoad, nvParams, id)
    IN  IF r.store
        THEN {e \in tex : e.pos # << id.x, id.y >>}
             \cup {[pos |-> << id.x, id.y >>,
                    rgba |-> OutputTextureStore(r.loads.rgb)]}
        ELSE tex

\* the output texture after the work items lo .. hi-1 have run on texels tex
\* one after the other in index order (tex, the texture after the items
\* below lo, never holds more than lo texels)
RECURSIVE NvInIndexOrder(_, _, _)
NvInIndexOrder(tex, lo, hi) ==
    IF Cardinality(tex) > lo \/ hi <= lo THEN tex
    ELSE IF hi = lo + 1 THEN NvAfterItem(tex, lo)
    ELSE LET mid == (lo + hi) \div 2
         IN  NvInIndexOrder(NvInIndexOrder(tex, lo, mid), mid, hi)

\* the output buffer CreateOutputBuffer hands to Convert
FreshOutputBuffer == [s \in 1..(HalfWidth(width) * height) |-> FreshWord]

\* C23: within one Convert call the work items store to pairwise different
\* output slots and load only from the input, so whichever order the work
\* items run in (index order, reverse order, or a stride through the grid)
\* the output is, once the dispatch is complete, the one that running them
\* one by one in index order leaves; this holds for both kernels.
C23_OrderIndependence ==
    /\ \A s \in DOMAIN writes : Len(writes[s]) <= 1
    /\ nvWrites = Cardinality(NvWrittenPositions)
    /\ texReads \subseteq (0..(width - 1)) \X (0..(height - 1))
    /\ DispatchComplete => OutputBuffer = EncoderInIndexOrder(FreshOutputBuffer, 0, GridItems)
    /\ NvDispatchComplete => nvOutput = NvInIndexOrder({}, 0, NvGridItems)

\* C23 witness: a dispatch of two by two groups whose work items ran in
\* reverse order is complete, and two slots of its output hold different
\* words.
C23_Witness ==
    /\ order = "reverse"
    /\ pc = "done"
    /\ hr = "S_OK"
    /\ grid = << 2, 2 >>
    /\ OutputBuffer[1] # OutputBuffer[CeilHalf(width) + 1]

(***************************************************************************)
(* SpecValidate: MainLoop observed from the top of an iteration, after     *)
(* some frames have been counted                                           *)
(***************************************************************************)
\* frame counts at which the loop comes under observation: at its start, and
\* shortly before the 30th and the 300th counted frame
StartCounts == {0, 29, 299}

\* the top of an iteration of MainLoop after n frames were captured,
\* converted and counted, each in one time unit
ValidateInit ==
    /\ order = "forward"
    /\ variant = "raw"
    /\ texFormat = "B8G8R8A8_UNORM"
    /\ ColourIdle
    /\ ConverterIdle
    /\ ConvertIdle
    /\ SizeIdle
    /\ NvIdle
    /\ loopPc = "top"
    /\ runResult = "none"
    /\ \E n \in StartCounts :
         /\ m_frameCount = n
         /\ m_totalFrameTime = n
         /\ captures = n
         /\ countedBefore = n
    /\ captureDevice = 1
    /\ converterDevice = 1
    /\ loopHr = "none"
    /\ capturedTexture = Null
    /\ outputBuffer = Null
    /\ iterLog = << >>
    /\ skipped = 0
    /\ captureVersion \in CaptureVersions
    /\ captureInitialized = TRUE

ValidateNext ==
    \/ LoopCaptureFrame
    \/ LoopCreateOutputBuffer
    \/ LoopConvert
    \/ LoopValidateAndCount
    \/ LoopSleep

SpecValidate == ValidateInit /\ [][ValidateNext]_vars

\* ValidateConversion was called in the iteration whose log is log
ValidationRan(log) == LogHas(log, {"ValidateConversion"})

\* C24: ValidateConversion runs only in an iteration in which the count of
\* already counted frames is 30 or a multiple of 300; whether it passes, fails
\* or cannot read the buffer back, the step in which it runs ends ProcessFrame
\* with both resources released and the frame counted once, and leaves the
\* loop at its sleep, from where the next iteration starts; the count never
\* decreases, so no count is validated twice.
C24_ValidationNeverBlocksLoop ==
    [][ /\ m_frameCount' >= m_frameCount
        /\ (ValidationRan(iterLog') /\ ~ ValidationRan(iterLog)) =>
              /\ m_frameCount = 30 \/ m_frameCount % 300 = 0
              /\ Cardinality({i \in 1..Len(iterLog') :
                                  iterLog'[i].op = "ValidateConversion"}) = 1
              /\ m_frameCount' = m_frameCount + 1
              /\ capturedTexture' = Null
              /\ outputBuffer' = Null
              /\ loopPc' = "sleep"
              /\ runResult' = "none"
        /\ (loopPc = "sleep" /\ ValidationRan(iterLog)) =>
              (loopPc' = "top" /\ m_frameCount' = m_frameCount)
      ]_vars

\* C24 witness: the validation of the iteration with 30 counted frames
\* failed, and the frame has been counted all the same.
C24_Witness ==
    /\ loopPc = "sleep"
    /\ ValidationRan(iterLog)
    /\ LogHas(iterLog, {"LogError@FAILED"})
    /\ m_frameCount = 31

(***************************************************************************)
(* Views held when Convert returns (checked under Spec)                    *)
(***************************************************************************)
\* C25: on every return path of BGRAToYUY2Converter::Convert, including the
\* paths where creating the second view or mapping the constant buffer
\* fails, every view the call created has been released: no view is live
\* once the call has returned.
C25_ViewsReleasedOnEveryPath ==
    pc = "done" => liveViews = {}

(***************************************************************************)
(* The devices of capture and converter (checked under SpecLoop)           *)
(***************************************************************************)
\* MainLoop is running
InMainLoop == loopPc \in {"top", "create", "convert", "validate", "sleep"}

\* C26: at every point of the capture loop, also after an iteration in which
\* CaptureFrame saw DXGI_ERROR_ACCESS_LOST and re-initialized the capture,
\* the device of an initialized capture, which creates the textures
\* CaptureFrame returns, is the device the converter was initialized with.
C26_SameDeviceAcrossRecovery ==
    (InMainLoop /\ captureInitialized) => captureDevice = converterDevice

(***************************************************************************)
(* Frame resources of one ProcessFrame call (checked under SpecLoop)       *)
(***************************************************************************)
\* number of events of the log whose op is o
LogCount(log, o) == Cardinality({i \in 1..Len(log) : log[i].op = o})

\* the frame number of the texture CaptureFrame handed out in the iteration
\* whose log is log (0: it handed out none)
TextureObtained(log) == IF log = << >> THEN 0 ELSE log[1].frame

\* CreateOutputBuffer handed out a buffer in the iteration whose log is log
BufferObtained(log) ==
    LogHas(log, {"CreateOutputBuffer"}) /\ ~ LogHas(log, {"LogError@CreateOutputBuffer"})

\* C27: when ProcessFrame has returned, whatever step failed, the captured
\* texture obtained in the iteration has been released exactly once and the
\* output buffer obtained in it has been released exactly once, both pointers
\* are null, and a resource that was not obtained has not been released.
C27_FrameResourcesReleased ==
    loopPc = "sleep" =>
        /\ capturedTexture = Null
        /\ outputBuffer = Null
        /\ LogCount(iterLog, "ReleaseTexture")
              = (IF TextureObtained(iterLog) > 0 THEN 1 ELSE 0)
        /\ LogCount(iterLog, "ReleaseBuffer")
              = (IF BufferObtained(iterLog) THEN 1 ELSE 0)
        /\ \A i \in 1..Len(iterLog) :
              iterLog[i].op \in {"ReleaseTexture", "ReleaseBuffer"} =>
                  iterLog[i].frame = TextureObtained(iterLog)

\* C27 witness: ProcessFrame has returned after a Convert that failed with a
\* result other than E_INVALIDARG, with the texture and the buffer of the
\* frame released.
C27_Witness ==
    /\ loopPc = "sleep"
    /\ loopHr = "E_FAIL"
    /\ TextureObtained(iterLog) > 0
    /\ BufferObtained(iterLog)
    /\ LogCount(iterLog, "ReleaseTexture") = 1
    /\ LogCount(iterLog, "ReleaseBuffer") = 1

(***************************************************************************)
(* SpecLifecycle: any sequence of Initialize, Convert and Cleanup calls    *)
(* on one converter                                                        *)
(***************************************************************************)
LifecycleOps == {"Initialize", "Convert", "Cleanup"}

\* the member pointers and the flag, as a record
Members ==
    [m_initialized |-> m_initialized, m_device |-> m_device,
     m_context |-> m_context, m_computeShader |-> m_computeShader,
     m_constantBuffer |-> m_constantBuffer]

\* Cleanup(): the four SAFE_RELEASEs and m_initialized = false
CleanedUp ==
    [m_initialized |-> FALSE, m_device |-> FALSE, m_context |-> FALSE,
     m_computeShader |-> FALSE, m_constantBuffer |-> FALSE]

\* a catch block of Initialize that does not call Cleanup(): the members
\* stay as the failed attempt left them
AfterFailedInitialize_NoCleanup(before, shaderCreated) ==
    [before EXCEPT !.m_device = TRUE, !.m_context = TRUE,
                   !.m_computeShader = before.m_computeShader \/ shaderCreated]

\* the members after Initialize threw: the catch block calls Cleanup()
AfterFailedInitialize(before, shaderCreated) == CleanedUp

\* the members after Initialize ran to its end
AfterInitialize ==
    [m_initialized |-> TRUE, m_device |-> TRUE, m_context |-> TRUE,
     m_computeShader |-> TRUE, m_constantBuffer |-> TRUE]

\* the lifecycle calls made so far
LifecycleCalls == Cardinality({i \in 1..Len(calls) : calls[i] \in LifecycleOps})

SetMembers(m) ==
    /\ m_initialized' = m.m_initialized
    /\ m_device' = m.m_device
    /\ m_context' = m.m_context
    /\ m_computeShader' = m.m_computeShader
    /\ m_constantBuffer' = m.m_constantBuffer

LifecycleInit ==
    /\ variant \in Variants
    /\ texFormat \in TextureFormats
    /\ ColourIdle
    /\ ConverterIdle
    /\ pc = "constructed"
    /\ hr = "none"
    /\ width = 0
    /\ height = 0
    /\ pattern = "none"
    /\ calls = << >>
    /\ liveViews = {}
    /\ params = NoParams
    /\ grid = << 0, 0 >>
    /\ cursor = 0
    /\ OutputBuffer = << >>
    /\ writes = << >>
    /\ oobStores = 0
    /\ texReads = {}
    /\ order = "forward"
    /\ SizeIdle
    /\ NvIdle
    /\ LoopIdle

LifecycleUnchanged ==
    UNCHANGED << variant, texFormat, colourVars, kernelVars, sizeVars, nvVars,
                 loopVars, width, height, pattern, liveViews, params >>

\* Initialize(device, context): rejected for a null argument; otherwise the
\* pointers are taken, then the shader compiles and the constant buffer is
\* created, or one of the two fails and the catch block runs
LcInitialize ==
    /\ LifecycleCalls < MaxLifecycleCalls
    /\ pc' = "Initialize"
    /\ calls' = Append(calls, "Initialize")
    /\ \E device \in BOOLEAN, context \in BOOLEAN,
          shaderOk \in BOOLEAN, bufferOk \in BOOLEAN :
         IF ~ device \/ ~ context
         THEN hr' = "E_INVALIDARG" /\ SetMembers(Members)
         ELSE IF shaderOk /\ bufferOk
         THEN hr' = "S_OK" /\ SetMembers(AfterInitialize)
         ELSE hr' = "E_FAIL" /\ SetMembers(AfterFailedInitialize(Members, shaderOk))
    /\ LifecycleUnchanged

\* Convert with a texture and a buffer: E_INVALIDARG at once when the
\* converter is not initialized; otherwise the format check and the device
\* and context calls
LcConvert ==
    /\ LifecycleCalls < MaxLifecycleCalls
    /\ pc' = "Convert"
    /\ IF ~ m_initialized
       THEN hr' = "E_INVALIDARG" /\ calls' = Append(calls, "Convert")
       ELSE IF ~ IsSupportedFormat(texFormat)
       THEN hr' = "E_INVALIDARG" /\ calls' = Append(calls, "Convert")
       ELSE \/ \E srvResult \in DeviceFailures :
                 /\ hr' = srvResult
                 /\ calls' = calls \o << "Convert", "CreateShaderResourceView" >>
            \/ /\ hr' = "E_FAIL"
               /\ calls' = calls \o << "Convert", "CreateShaderResourceView",
                                       "CreateUnorderedAccessView" >>
            \/ /\ hr' = "E_FAIL"
               /\ calls' = calls \o << "Convert", "CreateShaderResourceView",
                                       "CreateUnorderedAccessView", "Map" >>
            \/ /\ hr' = "S_OK"
               /\ calls' = calls \o << "Convert", "CreateShaderResourceView",
                                       "CreateUnorderedAccessView", "Map", "Unmap",
                                       "CSSetShader", "CSSetShaderResources",
                                       "CSSetUnorderedAccessViews",
                                       "CSSetConstantBuffers", "Dispatch",
                                       "CSSetShaderResources",
                                       "CSSetUnorderedAccessViews" >>
    /\ SetMembers(Members)
    /\ LifecycleUnchanged

\* Cleanup()
LcCleanup ==
    /\ LifecycleCalls < MaxLifecycleCalls
    /\ pc' = "Cleanup"
    /\ hr' = "none"
    /\ calls' = Append(calls, "Cleanup")
    /\ SetMembers(CleanedUp)
    /\ LifecycleUnchanged

LifecycleNext ==
    \/ LcInitialize
    \/ LcConvert
    \/ LcCleanup

SpecLifecycle == LifecycleInit /\ [][LifecycleNext]_vars

\* all four member pointers are non-null
AllFourSet == m_device /\ m_context /\ m_computeShader /\ m_constantBuffer

\* all four member pointers are null and the flag is false
AllNull ==
    /\ ~ m_initialized
    /\ ~ m_device
    /\ ~ m_context
    /\ ~ m_computeShader
    /\ ~ m_constantBuffer

\* the last call was a Convert that made no device or context call
ConvertMadeNoDeviceCall == calls # << >> /\ calls[Len(calls)] = "Convert"

\* C28 as stated: m_initialized only with all four pointers non-null; after
\* any failed Initialize and after Cleanup all four are null and
\* m_initialized is false; a Convert on an uninitialized converter returns
\* E_INVALIDARG without a device or context call.
C28_LifecycleAsStated ==
    /\ m_initialized => AllFourSet
    /\ (pc = "Cleanup" \/ (pc = "Initialize" /\ hr # "S_OK")) => AllNull
    /\ (pc = "Convert" /\ ~ m_initialized) =>
          (hr = "E_INVALIDARG" /\ ConvertMadeNoDeviceCall)

\* C28, amended: m_initialized only with all four pointers non-null; after
\* Cleanup, and after an Initialize that failed past its argument check
\* (E_FAIL), all four are null and m_initialized is false; an Initialize
\* rejected for a null argument (E_INVALIDARG) leaves the converter as it
\* was, so all four are null and m_initialized false or all four are set and
\* m_initialized true; a Convert on an uninitialized converter returns
\* E_INVALIDARG without a device or context call.
C28_LifecycleInvariant ==
    /\ m_initialized => AllFourSet
    /\ (pc = "Cleanup" \/ (pc = "Initialize" /\ hr = "E_FAIL")) => AllNull
    /\ (pc = "Initialize" /\ hr = "E_INVALIDARG") =>
          (AllNull \/ (m_initialized /\ AllFourSet))
    /\ (pc = "Convert" /\ ~ m_initialized) =>
          (hr = "E_INVALIDARG" /\ ConvertMadeNoDeviceCall)

\* C28 witness: a converter that was initialized, then failed a second
\* Initialize past the argument check, has been asked to convert.
C28_Witness ==
    /\ pc = "Convert"
    /\ Len(calls) >= 3
    /\ calls[1] = "Initialize"
    /\ calls[2] = "Initialize"
    /\ AllNull
    /\ hr = "E_INVALIDARG"
    /\ ConvertMadeNoDeviceCall
    /\ IsSupportedFormat(texFormat)

(***************************************************************************)
(* C29: the raw view over the NV12 input buffer                             *)
(***************************************************************************)
\* the size in bytes of the view Convert creates: NumElements 32-bit words
NvViewSize(w, h) == 4 * NvNumElements(w, h)

RgbaDims == 1..MaxSampleDim

\* what the texture holds: every texel opaque, the first texel transparent,
\* or the right half of the image transparent
RgbaPatterns == {"opaque", "first_transparent", "right_transparent"}

\* mappedResource.RowPitch of the staging texture
RowPitch(w) == 4 * w

\* the bytes R, G, B, A of the texel at (x, y)
RgbaTexel(p, x, y, w) ==
    << (16 * x) % 256, (16 * y) % 256, 128,
       IF p = "first_transparent" /\ x = 0 /\ y = 0 THEN 0
       ELSE IF p = "right_transparent" /\ 2 * x >= w THEN 0
       ELSE 255 >>

\* the mapped staging texture: h rows of RowPitch(w) bytes
StagingBytes(p, w, h) ==
    [i \in 1..(RowPitch(w) * h) |->
        RgbaTexel(p, ((i - 1) % RowPitch(w)) \div 4, (i - 1) \div RowPitch(w),
                  w)[((i - 1) % 4) + 1]]

RgbaInit ==
    /\ order = "forward"
    /\ variant = "raw"
    /\ texFormat = "B8G8R8A8_UNORM"
    /\ ColourIdle
    /\ ConverterIdle
    /\ ConvertIdle
    /\ SizeIdle
    /\ nvPc = "off"
    /\ nvWidth = 0
    /\ nvHeight = 0
    /\ nvBuffer = << >>
    /\ nvParams = [ImageWidth |-> 0, ImageHeight |-> 0,
                   YPlaneStride |-> 0, UVPlaneStride |-> 0]
    /\ nvGrid = << 0, 0 >>
    /\ nvCursor = 0
    /\ nvLoads = NoLoads
    /\ nvOutput = {}
    /\ nvWrites = 0
    /\ unalignedLoad = "none"
    /\ LoopIdle
    /\ rgbaPc = "called"
    /\ rgbaWidth \in RgbaDims
    /\ rgbaHeight \in RgbaDims
    /\ \E p \in RgbaPatterns : rgbaData = StagingBytes(p, rgbaWidth, rgbaHeight)
    /\ testX = 0
    /\ testY = 0
    /\ isValid = FALSE
    /\ rgbaLog = << >>
    /\ samplePasses = 0

RgbaUnchangedOthers ==
    UNCHANGED << variant, texFormat, colourVars, converterVars, convertVars,
                 kernelVars, sizeVars, loopVars,
                 nvPc, nvWidth, nvHeight, nvBuffer, nvParams, nvGrid, nvCursor,
                 nvLoads, nvOutput, nvWrites, unalignedLoad >>

\* ValidateRGBAOutput up to the first sample: the staging texture is created,
\* the output copied into it and mapped; a failure of CreateTexture2D or of
\* Map logs an error and returns
RgbaEnter ==
    /\ rgbaPc = "called"
    /\ \/ /\ rgbaPc' = "returned"
          /\ rgbaLog' = << "CreateTexture2D", "LogError@staging" >>
          /\ UNCHANGED << testX, testY, isValid >>
       \/ /\ rgbaPc' = "returned"
          /\ rgbaLog' = << "CreateTexture2D", "CopyResource", "Map",
                           "LogError@map", "Release" >>
          /\ UNCHANGED << testX, testY, isValid >>
       \/ /\ rgbaPc' = "sampling"
          /\ rgbaLog' = << "CreateTexture2D", "CopyResource", "Map" >>
          /\ isValid' = TRUE
          /\ testY' = 0
          /\ testX' = 0
    /\ UNCHANGED << rgbaWidth, rgbaHeight, rgbaData, samplePasses >>
    /\ RgbaUnchangedOthers

\* the checks of the loop body on the texel at (testX, testY): alpha must be
\* 255; r, g and b are BYTEs, so r > 255 || g > 255 || b > 255 is never true
SampleValid(data, w, x, y) ==
    LET pixelIndex == y * RowPitch(w) + x * 4
        r == data[pixelIndex + 1]
        g == data[pixelIndex + 2]
        b == data[pixelIndex + 3]
        a == data[pixelIndex + 4]
    IN  a = 255 /\ ~(r > 255 \/ g > 255 \/ b > 255)

\* testX += width / 4, testY += height / 4: the step of a sampling loop
StepOf(n) == n \div 4

\* one pass of the loop body at (testX, testY), the increment of testX and
\* the loop conditions that follow it: the inner loop goes on at the next
\* testX, or it ends, testY is incremented and the outer loop starts the
\* inner one again at testX = 0, or both loops end
RgbaSample ==
    /\ rgbaPc = "sampling"
    /\ LET valid == isValid /\ SampleValid(rgbaData, rgbaWidth, testX, testY)
           nextX == testX + StepOf(rgbaWidth)
           nextY == testY + StepOf(rgbaHeight)
       IN  /\ isValid' = valid
           /\ rgbaLog' = IF valid THEN rgbaLog
                         ELSE Append(rgbaLog, "LogError@alpha")
           /\ IF nextX < rgbaWidth /\ valid
              THEN /\ testX' = nextX
                   /\ UNCHANGED << testY, rgbaPc >>
              ELSE IF nextY < rgbaHeight /\ valid
              THEN /\ testX' = 0
                   /\ testY' = nextY
                   /\ UNCHANGED rgbaPc
              ELSE /\ testX' = nextX
                   /\ testY' = nextY
                   /\ rgbaPc' = "sampled"
    /\ samplePasses' = (samplePasses + 1) % 2
    /\ UNCHANGED << rgbaWidth, rgbaHeight, rgbaData >>
    /\ RgbaUnchangedOthers

\* after the loops: the verdict is logged (and the first row saved when it
\* is PASSED), the staging texture unmapped and released
RgbaFinish ==
    /\ rgbaPc = "sampled"
    /\ rgbaPc' = "returned"
    /\ rgbaLog' = rgbaLog \o
                  (IF isValid THEN << "LogMessage@PASSED", "SaveRGBASample" >>
                   ELSE << "LogError@FAILED" >>)
                  \o << "Unmap", "Release" >>
    /\ UNCHANGED << rgbaWidth, rgbaHeight, rgbaData, testX, testY, isValid,
                    samplePasses >>
    /\ RgbaUnchangedOthers

RgbaNext ==
    \/ RgbaEnter
    \/ RgbaSample
    \/ RgbaFinish

\* the thread that runs ValidateRGBAOutput keeps running
SpecRgbaValidate == RgbaInit /\ [][RgbaNext]_vars /\ WF_vars(RgbaNext)

====
